---- MODULE Spec2Model ----
(***************************************************************************)
(* Transaction ledger of the warehouse inventory tracker: the hook         *)
(* useTransactions (status policy, reference numbers, create with transfer *)
(* mirror, detail update, advance) and the count hook's generateAdjustment *)
(* over a store of headers and detail lines.                               *)
(*                                                                         *)
(* Every handler is one atomic action (the calls do not overlap).  Each    *)
(* request to the store is answered "ok" or "error"; the answers are       *)
(* inputs of the action.  A property of what a handler does is stated of   *)
(* the calls whose requests the store answers "ok", unless it speaks of    *)
(* failures; what a handler does when a request fails is modelled too.     *)
(***************************************************************************)
EXTENDS Integers, Sequences, FiniteSets

(***************************************************************************)
(* Bounds of the model.                                                    *)
(***************************************************************************)
\* Under Spec no handler adds a row to transaction_header beyond MaxHeaders
\* rows, under SpecStatus none beyond MaxStatusHeaders rows.
MaxHeaders == 3
MaxStatusHeaders == 2
\* ... and under SpecTransfer none beyond MaxTransferHeaders rows, under
\* SpecHeader none beyond MaxEditHeaders rows.
MaxTransferHeaders == 2
MaxEditHeaders == 2
\* The millisecond clock read by generateAdjustment runs from 0 to MaxClock.
MaxClock == 1

\* SpecCount: the lines a count holds and the headers the ledger holds.
MaxCountLines == 2
MaxCountHeaders == 1

\* SpecSnapshot: the rows the snapshot view holds.
MaxSnapshotRows == 2

\* SpecOutcome: the headers the ledger holds.
MaxOutcomeHeaders == 2

\* SpecDelete: the greatest sequence number a create issues.
MaxDeleteSequence == 1

\* SpecRace: the callers whose createTransaction calls overlap.
MaxCallers == 2

\* SpecFetch: the runs of the effect that fetches the snapshot.
MaxFetches == 2

(***************************************************************************)
(* Value domains.                                                          *)
(***************************************************************************)
\* null for an id column (related_transaction_id); ids start at 1.
NoId == 0

\* "Unrecognized" stands for every transaction type outside the three known.
TransactionTypes == {"Inbound", "Outbound", "Adjustment", "Unrecognized"}

\* "Cancelled" stands for every status outside the four known.
TransactionStatuses == {"Pending", "Received", "Shipped", "Completed", "Cancelled"}

ReferenceTypes == {"Transfer Order", "Purchase Order"}

\* "" is the empty / missing destination warehouse of a request.
TransferWarehouses == {"", "W2"}

\* "" is the missing transfer-specific inventory status.
TransferInventoryStatuses == {""}

\* item.quantity of a request: a number, or something that is not a number.
NumQty(n) == [isNumber |-> TRUE, value |-> n]
NotANumberQty == [isNumber |-> FALSE, value |-> 0]

\* data.items of a request: one line, and two lines one of which has a
\* quantity that is not a number.
\* lot_number "" is a lot number that the request leaves out.
OneItem == << [item_name |-> "A", quantity |-> NumQty(3), lot_number |-> "L1"] >>
TwoItems == << [item_name |-> "A", quantity |-> NumQty(3), lot_number |-> "L1"],
               [item_name |-> "B", quantity |-> NotANumberQty, lot_number |-> ""] >>

\* The variances held by the count hook when generateAdjustment is called:
\* a shortage and an item counted as calculated.
Variances == << [itemName |-> "A", variance |-> -2],
                [itemName |-> "B", variance |-> 0] >>

(***************************************************************************)
(* Strings are sequences of one-character strings, so that formatting and  *)
(* parsing of reference numbers are computed, not assumed.                 *)
(***************************************************************************)
DigitChars == <<"0", "1", "2", "3", "4", "5", "6", "7", "8", "9">>

IsDigit(c) == \E i \in 1..10 : DigitChars[i] = c

DigitValue(c) == (CHOOSE i \in 1..10 : DigitChars[i] = c) - 1

\* Character codes, for the store's ORDER BY on reference_number.
CharCode(c) ==
  CASE c = "-" -> 45
    [] IsDigit(c) -> 48 + DigitValue(c)
    [] c = "A" -> 65 [] c = "B" -> 66 [] c = "C" -> 67 [] c = "D" -> 68
    [] c = "I" -> 73 [] c = "J" -> 74 [] c = "N" -> 78 [] c = "O" -> 79
    [] c = "T" -> 84 [] c = "U" -> 85
    [] c = "a" -> 97

\* Upper-casing of the characters that occur, for ilike.
UpperChar(c) == IF c = "a" THEN "A" ELSE c

\* s1 sorts strictly before s2.
StringLess(s1, s2) ==
  LET n == IF Len(s1) < Len(s2) THEN Len(s1) ELSE Len(s2)
      diff == {i \in 1..n : s1[i] # s2[i]}
  IN  IF diff = {}
      THEN Len(s1) < Len(s2)
      ELSE LET i == CHOOSE j \in diff : \A k \in diff : j <= k
           IN  CharCode(s1[i]) < CharCode(s2[i])

\* reference_number ILIKE 'prefix%'
ILikePrefix(s, prefix) ==
  /\ Len(s) >= Len(prefix)
  /\ \A i \in 1..Len(prefix) : UpperChar(s[i]) = UpperChar(prefix[i])

\* A JavaScript number that is a natural number or NaN.
Number(n) == [nan |-> FALSE, value |-> n]
NaN == [nan |-> TRUE, value |-> 0]

PlusOne(x) == IF x.nan THEN NaN ELSE Number(x.value + 1)

RECURSIVE NatToString(_)
NatToString(n) ==
  IF n < 10 THEN << DigitChars[n + 1] >>
  ELSE NatToString(n \div 10) \o << DigitChars[(n % 10) + 1] >>

\* String(x)
NumberToString(x) == IF x.nan THEN <<"N", "a", "N">> ELSE NatToString(x.value)

\* s.padStart(width, '0')
PadStart(s, width) ==
  IF Len(s) >= width THEN s
  ELSE [i \in 1..(width - Len(s)) |-> "0"] \o s

RECURSIVE DigitsValue(_)
DigitsValue(s) ==
  IF s = << >> THEN 0
  ELSE 10 * DigitsValue(SubSeq(s, 1, Len(s) - 1)) + DigitValue(s[Len(s)])

\* parseInt(s) of a string without sign or blanks: the value of the leading
\* run of decimal digits, NaN when the string does not start with a digit.
ParseInt(s) ==
  LET stop == {i \in 1..Len(s) : ~IsDigit(s[i])}
      n == IF stop = {} THEN Len(s)
           ELSE (CHOOSE j \in stop : \A k \in stop : j <= k) - 1
  IN  IF n = 0 THEN NaN ELSE Number(DigitsValue(SubSeq(s, 1, n)))

\* s.split('-')[1]: the text between the first and the second '-' (or the
\* end).  Only applied to strings that contain a '-'.
SplitDashSecond(s) ==
  LET dashes == {i \in 1..Len(s) : s[i] = "-"}
      first == CHOOSE j \in dashes : \A k \in dashes : j <= k
      later == {i \in dashes : i > first}
      stop == IF later = {} THEN Len(s) + 1
              ELSE CHOOSE j \in later : \A k \in later : j <= k
  IN  SubSeq(s, first + 1, stop - 1)

(***************************************************************************)
(* Status policy.                                                          *)
(***************************************************************************)
\* isStatusValidForType with the Outbound row copied from the Inbound row.
isStatusValidForType_OutboundAsInbound(status, transactionType) ==
  CASE transactionType = "Inbound" -> status = "Pending" \/ status = "Received"
    [] transactionType = "Outbound" -> status = "Pending" \/ status = "Received"
    [] transactionType = "Adjustment" -> status = "Pending" \/ status = "Completed"
    [] OTHER -> TRUE

isStatusValidForType(status, transactionType) ==
  CASE transactionType = "Inbound" -> status = "Pending" \/ status = "Received"
    [] transactionType = "Outbound" -> status = "Pending" \/ status = "Shipped"
    [] transactionType = "Adjustment" -> status = "Pending" \/ status = "Completed"
    [] OTHER -> TRUE

\* getNextStatusForType without the Adjustment entry.
getNextStatusForType_NoAdjustment(transactionType) ==
  IF transactionType = "Inbound" THEN "Received"
  ELSE IF transactionType = "Outbound" THEN "Shipped"
  ELSE "none"

\* getNextStatusForType with a default entry instead of null.
getNextStatusForType_Default(transactionType) ==
  IF transactionType = "Inbound" THEN "Received"
  ELSE IF transactionType = "Outbound" THEN "Shipped"
  ELSE "Completed"

\* "none" is the null result.
getNextStatusForType(transactionType) ==
  IF transactionType = "Inbound" THEN "Received"
  ELSE IF transactionType = "Outbound" THEN "Shipped"
  ELSE IF transactionType = "Adjustment" THEN "Completed"
  ELSE "none"

(***************************************************************************)
(* State.                                                                  *)
(***************************************************************************)
VARIABLES
  headers,       \* table transaction_header: a set of rows
  details,       \* table transaction_detail: a set of rows
  transactions,  \* useTransactions state: the list read by fetchTransactions
  now,           \* new Date().getTime()
  last,          \* the last handler call: what it returned, toasted and
                 \* asked of the store
  run,           \* length of the current run of consecutive complete creates
                 \* of one type that began on a ledger without its prefix
  views,         \* the store's views transactions_inventory_snapshot_by_date
                 \* (snapshot) and transactions_inventory_summary (summary)
  count,         \* useInventoryCount state
  inventory,     \* WarehouseReport state: the rows shown
  inflight       \* the calls that await an answer of the store: creates of
                 \* overlapping createTransaction calls, fetches of
                 \* fetchInitialInventory

vars == <<headers, details, transactions, now, last, run, views, count, inventory,
          inflight>>

\* The variables that no handler of useTransactions, run from its call to
\* its return, reads or writes.
countVars == <<views, count, inventory, inflight>>

\* The rows of a header, as fetchTransactions embeds them.
DetailsOf(ds, transactionId) == {d \in ds : d.transaction_id = transactionId}

\* What fetchTransactions stores: each header with its detail rows; of a
\* row the handlers read the ids, the type, the reference number and the
\* number of details.
FetchedTransactions(hs, ds) ==
  { [transaction_id |-> h.transaction_id,
     transaction_type |-> h.transaction_type,
     reference_number |-> h.reference_number,
     details |-> {d.detail_id : d \in DetailsOf(ds, h.transaction_id)}] : h \in hs }

\* crypto.randomUUID returns a value that occurs nowhere yet: here the least
\* id that no row, no cached row and no returned header carries.
UsedIds ==
  {h.transaction_id : h \in headers} \cup {h.related_transaction_id : h \in headers}
  \cup {d.detail_id : d \in details} \cup {d.transaction_id : d \in details}
  \cup {t.transaction_id : t \in transactions}
  \cup UNION {t.details : t \in transactions}
  \cup {last.id}

RECURSIVE LeastUnused(_, _)
LeastUnused(used, i) == IF i \notin used THEN i ELSE LeastUnused(used, i + 1)

\* The next k values of crypto.randomUUID, in the order drawn.
RECURSIVE randomUUIDs(_, _)
randomUUIDs(used, k) ==
  IF k = 0 THEN << >>
  ELSE LET id == LeastUnused(used, 1)
       IN  <<id>> \o randomUUIDs(used \cup {id}, k - 1)

NoRun == [type |-> "none", n |-> 0]

\* What a call record keeps of a createTransaction request: the two fields
\* that decide whether the call is a transfer.
RequestOf(data) == [referenceType |-> data.referenceType,
                    transferToWarehouse |-> data.transferToWarehouse]

\* The request of a call that is no createTransaction.
NoRequest == [referenceType |-> "", transferToWarehouse |-> ""]

\* op: the handler; data: the request of a createTransaction; ok: it
\* returned a header / an id / true; id, ref: the row it returned or worked
\* on; toast: the message shown; calls: the requests it put to the store.
NoCall == [op |-> "none", data |-> NoRequest, ok |-> FALSE, id |-> NoId,
           ref |-> << >>, toast |-> "none", calls |-> << >>]

NoViews == [snapshot |-> {}, summary |-> {}]

\* useState('') and useState([]) of useInventoryCount.
NoCount == [selectedWarehouse |-> "", selectedDate |-> "", countData |-> << >>,
            calculatedInventory |-> << >>, variances |-> << >>]

NoInflight == [creates |-> {}, fetches |-> {}]

\* The ledger is empty and no handler has been called.
InitLedger ==
  /\ headers = {}
  /\ details = {}
  /\ transactions = {}
  /\ now = 0
  /\ last = NoCall
  /\ run = NoRun
  /\ count = NoCount
  /\ inventory = << >>
  /\ inflight = NoInflight

Init ==
  /\ InitLedger
  /\ views = NoViews

(***************************************************************************)
(* createTransaction                                                       *)
(***************************************************************************)
PrefixOf(type) ==
  IF type = "Inbound" THEN <<"I", "B", "-">>
  ELSE IF type = "Outbound" THEN <<"O", "B", "-">>
  ELSE <<"A", "D", "J", "-">>

\* select reference_number ... ilike prefix% order by reference_number desc
\* limit 1: the rows returned (none or one).
LastRef(hs, prefix) ==
  LET refs == {h.reference_number : h \in {g \in hs : ILikePrefix(g.reference_number, prefix)}}
  IN  IF refs = {} THEN << >>
      ELSE << CHOOSE r \in refs : \A q \in refs : ~StringLess(r, q) >>

\* NextSequence without the increment.
NextSequence_NoIncrement(lastRef) ==
  IF lastRef # "null" /\ Len(lastRef) > 0
  THEN PadStart(NumberToString(ParseInt(SplitDashSecond(lastRef[1]))), 5)
  ELSE <<"0", "0", "0", "0", "1">>

\* lastRef is the data of the query: "null" when the query failed.
NextSequence(lastRef) ==
  IF lastRef # "null" /\ Len(lastRef) > 0
  THEN PadStart(NumberToString(PlusOne(ParseInt(SplitDashSecond(lastRef[1])))), 5)
  ELSE <<"0", "0", "0", "0", "1">>

\* typeof item.quantity === 'number' ? item.quantity : 0
QuantityOf(item) == IF item.quantity.isNumber THEN item.quantity.value ELSE 0

\* item.lot_number || null
LotOf(item) == IF item.lot_number = "" THEN "null" ELSE item.lot_number

\* data.items.map(...) of the primary transaction; ids are the detail_ids
\* drawn, in order.
PrimaryDetails(data, transactionId, ids) ==
  { [detail_id |-> ids[i],
     transaction_id |-> transactionId,
     item_name |-> data.items[i].item_name,
     quantity |-> QuantityOf(data.items[i]),
     inventory_status |-> data.inventoryStatus,
     status |-> data.status,
     lot_number |-> LotOf(data.items[i]),
     comments |-> "null"] : i \in 1..Len(data.items) }

\* The mirror's inventory status without the override of the request.
InboundInventoryStatus_Primary(data) == data.inventoryStatus

\* data.transferToInventoryStatus || data.inventoryStatus
InboundInventoryStatus(data) ==
  IF data.transferToInventoryStatus # ""
  THEN data.transferToInventoryStatus
  ELSE data.inventoryStatus

\* InboundDetails with the status of the primary's lines.
InboundDetails_PrimaryStatus(data, inboundId, ids) ==
  { [detail_id |-> ids[i],
     transaction_id |-> inboundId,
     item_name |-> data.items[i].item_name,
     quantity |-> QuantityOf(data.items[i]),
     inventory_status |-> InboundInventoryStatus(data),
     status |-> data.status,
     lot_number |-> LotOf(data.items[i]),
     comments |-> "null"] : i \in 1..Len(data.items) }

\* data.items.map(...) of the inbound mirror.
InboundDetails(data, inboundId, ids) ==
  { [detail_id |-> ids[i],
     transaction_id |-> inboundId,
     item_name |-> data.items[i].item_name,
     quantity |-> QuantityOf(data.items[i]),
     inventory_status |-> InboundInventoryStatus(data),
     status |-> "Pending",
     lot_number |-> LotOf(data.items[i]),
     comments |-> "null"] : i \in 1..Len(data.items) }

\* IsTransfer without the test of the destination warehouse.
IsTransfer_NoDestination(data) ==
  data.referenceType = "Transfer Order"

\* data.referenceType === 'Transfer Order' && data.transferToWarehouse
IsTransfer(data) ==
  data.referenceType = "Transfer Order" /\ data.transferToWarehouse # ""

\* addBusinessDays(new Date(date), days).toISOString().split('T')[0], for
\* the dates that occur: 2025-01-06 is a Monday.
AddBusinessDays(date, days) ==
  CASE date = "2025-01-06" /\ days = 2 -> "2025-01-08"

\* The requests createTransaction can put to the store, in program order.
CreateSteps == <<"select lastRef", "insert header", "insert details",
                 "insert inbound header", "insert inbound details">>

\* The store's answers to one call: to the lastRef query, and "ok" to the
\* inserts up to the insert failAt (if any), which gets the answer failure.
CreateAnswers ==
  { a \in [lastRef : {"ok", "error"},
           failAt : {"none", "insert header", "insert details",
                     "insert inbound header", "insert inbound details"},
           failure : {"error"}] :
      a.failAt = "none" => a.failure = "error" }

\* The answers of a store that accepts every request of a createTransaction.
AllOk == [lastRef |-> "ok", failAt |-> "none", failure |-> "error"]

AnswerTo(a, request) ==
  IF request = "select lastRef" THEN a.lastRef
  ELSE IF request = a.failAt THEN a.failure ELSE "ok"

\* The inbound reference as the next of the Inbound sequence.
InboundReference_NextInbound(sequence) ==
  <<"I", "B", "-">> \o NextSequence(LastRef(headers, <<"I", "B", "-">>))

\* `IB-${sequence}`
InboundReference(sequence) == <<"I", "B", "-">> \o sequence

\* IssuedInserts of a call that goes on after an insert has failed.
IssuedInserts_All(data, a) ==
  IF ~IsTransfer(data) THEN 2 ELSE 4

\* How many of the four inserts a call issues: each insert is awaited and
\* the call returns or throws when it has failed.
IssuedInserts(data, a) ==
  IF a.failAt = "insert header" THEN 1
  ELSE IF a.failAt = "insert details" THEN 2
  ELSE IF ~IsTransfer(data) THEN 2
  ELSE IF a.failAt = "insert inbound header" THEN 3
  ELSE 4

createTransaction(data, a) ==
  IF ~isStatusValidForType(data.status, data.type)
  THEN /\ last' = [NoCall EXCEPT !.op = "createTransaction",
                                 !.data = RequestOf(data),
                                 !.toast = "status not allowed"]
       /\ run' = NoRun
       /\ UNCHANGED <<headers, details, transactions, now>>
  ELSE
    LET prefix == PrefixOf(data.type)
        lastRef == IF a.lastRef = "ok" THEN LastRef(headers, prefix) ELSE "null"
        sequence == NextSequence(lastRef)
        referenceNumber == prefix \o sequence
        n == Len(data.items)
        uuids == randomUUIDs(UsedIds, 2 + 2 * n)
        transaction_id == uuids[1]
        inboundId == uuids[n + 2]
        \* a request carries no relatedTransactionId
        header == [transaction_id |-> transaction_id,
                   transaction_type |-> data.type,
                   transaction_date |-> data.date,
                   warehouse |-> data.warehouse,
                   reference_type |-> data.referenceType,
                   reference_number |-> referenceNumber,
                   shipment_carrier |-> data.shipmentCarrier,
                   shipping_document |-> data.shippingDocument,
                   customer_po |-> data.customerPO,
                   customer_name |-> data.customerName,
                   comments |-> data.comments,
                   related_transaction_id |-> NoId]
        transferDate == IF data.transferDate # "" THEN data.transferDate
                        ELSE AddBusinessDays(data.date, 2)
        inboundHeader == [transaction_id |-> inboundId,
                          transaction_type |-> "Inbound",
                          transaction_date |-> transferDate,
                          warehouse |-> data.transferToWarehouse,
                          reference_type |-> "Transfer Order",
                          reference_number |-> InboundReference(sequence),
                          shipment_carrier |-> data.shipmentCarrier,
                          shipping_document |-> data.shippingDocument,
                          customer_po |-> "null",
                          customer_name |-> "null",
                          comments |-> data.comments,
                          related_transaction_id |-> transaction_id]
        issued == IssuedInserts(data, a)
        failed == AnswerTo(a, CreateSteps[issued + 1]) # "ok"
        committed == IF failed THEN issued - 1 ELSE issued
        toast == IF ~failed THEN "success"
                 ELSE IF a.failure = "error" THEN "failed"
                 ELSE IF issued = 1 THEN "denied create"
                 ELSE IF issued = 2 THEN "denied details"
                 ELSE "denied action"
    IN  /\ headers' = headers
                      \cup (IF committed >= 1 THEN {header} ELSE {})
                      \cup (IF committed >= 3 THEN {inboundHeader} ELSE {})
        /\ details' = details
                      \cup (IF committed >= 2
                            THEN PrimaryDetails(data, transaction_id, SubSeq(uuids, 2, n + 1))
                            ELSE {})
                      \cup (IF committed >= 4
                            THEN InboundDetails(data, inboundId, SubSeq(uuids, n + 3, 2 * n + 2))
                            ELSE {})
        /\ transactions' = IF failed THEN transactions
                           ELSE FetchedTransactions(headers', details')
        /\ last' = [op |-> "createTransaction",
                    data |-> RequestOf(data),
                    ok |-> ~failed,
                    id |-> IF failed THEN NoId ELSE transaction_id,
                    ref |-> IF failed THEN << >> ELSE referenceNumber,
                    toast |-> toast,
                    calls |-> SubSeq(CreateSteps, 1, issued + 1)
                              \o (IF failed THEN << >> ELSE <<"select transactions">>)]
        /\ run' = IF failed \/ a.lastRef # "ok" THEN NoRun
                  ELSE IF LastRef(headers, prefix) = << >>
                       THEN [type |-> data.type, n |-> 1]
                  ELSE IF run.type = data.type
                       THEN [type |-> data.type, n |-> run.n + 1]
                  ELSE NoRun
        /\ UNCHANGED now

(***************************************************************************)
(* updateTransactionDetail                                                 *)
(***************************************************************************)
\* answer is the store's answer to the select ... single().
getTransactionType(transactionId, answer) ==
  LET data == {h \in headers : h.transaction_id = transactionId}
  IN  IF answer # "ok" \/ data = {}
      THEN "Adjustment"
      ELSE (CHOOSE h \in data : TRUE).transaction_type

\* update ... eq('detail_id', detail.detail_id)
UpdatedDetails(ds, detail) ==
  { IF d.detail_id = detail.detail_id
    THEN [d EXCEPT !.quantity = detail.quantity,
                   !.inventory_status = detail.inventory_status,
                   !.status = detail.status,
                   !.lot_number = detail.lot_number,
                   !.comments = detail.comments]
    ELSE d : d \in ds }

updateTransactionDetail(transactionId, detail, lookup, answer) ==
  LET transactionType == getTransactionType(transactionId, lookup)
  IN  IF ~isStatusValidForType(detail.status, transactionType)
      THEN /\ last' = [NoCall EXCEPT !.op = "updateTransactionDetail",
                                     !.toast = "status not allowed",
                                     !.calls = <<"select transaction_type">>]
           /\ run' = NoRun
           /\ UNCHANGED <<headers, details, transactions, now>>
      ELSE /\ details' = IF answer = "ok" THEN UpdatedDetails(details, detail)
                         ELSE details
           /\ transactions' = IF answer = "ok"
                              THEN FetchedTransactions(headers, details')
                              ELSE transactions
           /\ last' = [NoCall EXCEPT
                         !.op = "updateTransactionDetail",
                         !.ok = (answer = "ok"),
                         !.toast = IF answer = "ok" THEN "success"
                                   ELSE IF answer = "denied" THEN "denied update"
                                   ELSE "failed",
                         !.calls = <<"select transaction_type", "update detail">>
                                   \o (IF answer = "ok" THEN <<"select transactions">>
                                       ELSE << >>)]
           /\ run' = NoRun
           /\ UNCHANGED <<headers, now>>

\* The edit form hands back a stored detail row with a status chosen freely.
UpdateTransactionDetail ==
  \E h \in headers, d \in details, status \in TransactionStatuses,
     lookup \in {"ok", "error"}, answer \in {"ok", "error"} :
    /\ updateTransactionDetail(h.transaction_id, [d EXCEPT !.status = status], lookup, answer)
    /\ UNCHANGED countVars

(***************************************************************************)
(* updateTransactionHeader                                                 *)
(***************************************************************************)
\* A property of fields that is undefined is left out of the request and
\* its column keeps its value.
Updated(old, new) == IF new = "undefined" THEN old ELSE new

\* UpdatedHeaders without the filter on transaction_id.
UpdatedHeaders_AllRows(hs, transactionId, fields) ==
  { [h EXCEPT !.transaction_date = Updated(@, fields.transaction_date),
              !.warehouse = Updated(@, fields.warehouse),
              !.shipment_carrier = Updated(@, fields.shipment_carrier),
              !.shipping_document = Updated(@, fields.shipping_document),
              !.customer_po = Updated(@, fields.customer_po),
              !.customer_name = Updated(@, fields.customer_name),
              !.comments = Updated(@, fields.comments)] : h \in hs }

\* update({...}).eq('transaction_id', transactionId)
UpdatedHeaders(hs, transactionId, fields) ==
  { IF h.transaction_id = transactionId
    THEN [h EXCEPT !.transaction_date = Updated(@, fields.transaction_date),
                   !.warehouse = Updated(@, fields.warehouse),
                   !.shipment_carrier = Updated(@, fields.shipment_carrier),
                   !.shipping_document = Updated(@, fields.shipping_document),
                   !.customer_po = Updated(@, fields.customer_po),
                   !.customer_name = Updated(@, fields.customer_name),
                   !.comments = Updated(@, fields.comments)]
    ELSE h : h \in hs }

updateTransactionHeader(transactionId, fields, answer) ==
  /\ headers' = IF answer = "ok" THEN UpdatedHeaders(headers, transactionId, fields)
                ELSE headers
  /\ transactions' = IF answer = "ok" THEN FetchedTransactions(headers', details)
                     ELSE transactions
  /\ last' = [NoCall EXCEPT
                !.op = "updateTransactionHeader",
                !.ok = (answer = "ok"),
                !.id = transactionId,
                !.toast = IF answer = "ok" THEN "success"
                          ELSE IF answer = "denied" THEN "denied update header"
                          ELSE "failed",
                !.calls = <<"update header">>
                          \o (IF answer = "ok" THEN <<"select transactions">>
                              ELSE << >>)]
  /\ run' = NoRun
  /\ UNCHANGED <<details, now>>

\* What the edit form hands over as fields: a new value for every editable
\* field, for the date and the comments only, or for none.
HeaderFields ==
  { [transaction_date |-> "2025-01-07", warehouse |-> "W3",
     shipment_carrier |-> "Carrier 2", shipping_document |-> "Document 2",
     customer_po |-> "PO 2", customer_name |-> "Customer 2",
     comments |-> "Comment 2"],
    [transaction_date |-> "2025-01-07", warehouse |-> "undefined",
     shipment_carrier |-> "undefined", shipping_document |-> "undefined",
     customer_po |-> "undefined", customer_name |-> "undefined",
     comments |-> "Comment 2"],
    [transaction_date |-> "undefined", warehouse |-> "undefined",
     shipment_carrier |-> "undefined", shipping_document |-> "undefined",
     customer_po |-> "undefined", customer_name |-> "undefined",
     comments |-> "undefined"] }

\* The edit form is opened on a row of the fetched transactions.
UpdateTransactionHeader ==
  \E t \in transactions, fields \in HeaderFields, answer \in {"ok", "error"} :
    /\ updateTransactionHeader(t.transaction_id, fields, answer)
    /\ UNCHANGED countVars

(***************************************************************************)
(* advanceTransactionToNextStep                                            *)
(***************************************************************************)
\* AdvancedDetails without the filter on transaction_id.
AdvancedDetails_AllHeaders(ds, transactionId, nextStatus) ==
  { IF d.status = "Pending"
    THEN [d EXCEPT !.status = nextStatus]
    ELSE d : d \in ds }

\* update {status: nextStatus} eq transaction_id eq status 'Pending'
AdvancedDetails(ds, transactionId, nextStatus) ==
  { IF d.transaction_id = transactionId /\ d.status = "Pending"
    THEN [d EXCEPT !.status = nextStatus]
    ELSE d : d \in ds }

advanceTransactionToNextStep(transaction, answer) ==
  LET nextStatus == getNextStatusForType(transaction.transaction_type)
  IN  IF nextStatus = "none"
      THEN /\ last' = [NoCall EXCEPT !.op = "advanceTransactionToNextStep",
                                     !.id = transaction.transaction_id,
                                     !.toast = "no next step"]
           /\ run' = NoRun
           /\ UNCHANGED <<headers, details, transactions, now>>
      ELSE /\ details' = IF answer = "ok"
                         THEN AdvancedDetails(details, transaction.transaction_id, nextStatus)
                         ELSE details
           /\ transactions' = IF answer = "ok"
                              THEN FetchedTransactions(headers, details')
                              ELSE transactions
           /\ last' = [NoCall EXCEPT
                         !.op = "advanceTransactionToNextStep",
                         !.ok = (answer = "ok"),
                         !.id = transaction.transaction_id,
                         !.toast = IF answer = "ok" THEN "success" ELSE "failed",
                         !.calls = <<"update details">>
                                   \o (IF answer = "ok" THEN <<"select transactions">>
                                       ELSE << >>)]
           /\ run' = NoRun
           /\ UNCHANGED <<headers, now>>

\* The list hands over a row of the fetched transactions.
AdvanceTransactionToNextStep ==
  \E t \in transactions, answer \in {"ok", "error"} :
    /\ advanceTransactionToNextStep(t, answer)
    /\ UNCHANGED countVars

(***************************************************************************)
(* generateAdjustment (useInventoryCount)                                  *)
(***************************************************************************)
\* `ADJ-COUNT-${new Date().getTime()}`
CountReference(time) ==
  <<"A", "D", "J", "-", "C", "O", "U", "N", "T", "-">> \o NatToString(time)

Abs(x) == IF x < 0 THEN -x ELSE x

\* `Inventory count adjustment for ${selectedWarehouse} as of ${selectedDate}`,
\* for the one warehouse and date that occur.
CountComment(selectedWarehouse, selectedDate) ==
  CASE selectedWarehouse = "W1" /\ selectedDate = "2025-01-06"
         -> "Inventory count adjustment for W1 as of 2025-01-06"

\* variances.map(...) of every variance.
AdjustmentDetails_KeepZero(variances, adjustmentId, ids) ==
  { [detail_id |-> ids[i],
     transaction_id |-> adjustmentId,
     item_name |-> variances[i].itemName,
     quantity |-> Abs(variances[i].variance),
     inventory_status |-> "Stock",
     status |-> "Completed",
     lot_number |-> "null",
     comments |-> IF variances[i].variance > 0 THEN "Count overage"
                  ELSE "Count shortage"] : i \in 1..Len(variances) }

\* variances.filter(v => v.variance !== 0).map(...); ids are the detail_ids
\* drawn, one per variance kept.
AdjustmentDetails(variances, adjustmentId, ids) ==
  LET kept == SelectSeq(variances, LAMBDA v : v.variance # 0)
  IN  { [detail_id |-> ids[i],
         transaction_id |-> adjustmentId,
         item_name |-> kept[i].itemName,
         quantity |-> Abs(kept[i].variance),
         inventory_status |-> "Stock",
         status |-> "Completed",
         lot_number |-> "null",
         comments |-> IF kept[i].variance > 0 THEN "Count overage"
                      ELSE "Count shortage"] : i \in 1..Len(kept) }

\* time is the clock at the call; failAt is the insert the store fails, if any,
\* and failure the kind of its answer, which the catch does not look at.
generateAdjustment(selectedWarehouse, selectedDate, variances, time, failAt, failure) ==
  LET uuids == randomUUIDs(UsedIds, 1 + Len(variances))
      adjustmentId == uuids[1]
      header == [transaction_id |-> adjustmentId,
                 transaction_type |-> "Adjustment",
                 transaction_date |-> selectedDate,
                 warehouse |-> selectedWarehouse,
                 reference_type |-> "Inventory Count",
                 reference_number |-> CountReference(time),
                 shipment_carrier |-> "null",
                 shipping_document |-> "null",
                 customer_po |-> "null",
                 customer_name |-> "null",
                 comments |-> CountComment(selectedWarehouse, selectedDate),
                 related_transaction_id |-> NoId]
  IN  /\ selectedWarehouse # "" /\ selectedDate # "" /\ Len(variances) # 0
      /\ now' = time
      /\ headers' = IF failAt = "insert header" THEN headers
                    ELSE headers \cup {header}
      /\ details' = IF failAt = "none"
                    THEN details \cup AdjustmentDetails(variances, adjustmentId,
                                                        SubSeq(uuids, 2, Len(uuids)))
                    ELSE details
      /\ last' = [NoCall EXCEPT
                    !.op = "generateAdjustment",
                    !.ok = (failAt = "none"),
                    !.id = IF failAt = "none" THEN adjustmentId ELSE NoId,
                    !.toast = IF failAt = "none" THEN "success" ELSE "failed",
                    !.calls = IF failAt = "insert header" THEN <<"insert header">>
                              ELSE <<"insert header", "insert details">>]
      /\ run' = NoRun
      /\ UNCHANGED transactions

GenerateAdjustment ==
  \E time \in now..MaxClock, failAt \in {"none", "insert header", "insert details"} :
    /\ Cardinality(headers) + 1 <= MaxHeaders
    /\ generateAdjustment("W1", "2025-01-06", Variances, time, failAt, "error")
    /\ UNCHANGED countVars

(***************************************************************************)
(* useInventoryCount: the snapshot read, the count entry and the variances *)
(***************************************************************************)
\* The dates that occur, in calendar order.
Dates == <<"2025-01-05", "2025-01-06", "2025-01-07">>

DateIndex(date) == CHOOSE i \in 1..Len(Dates) : Dates[i] = date

\* .lte('transaction_date', selectedDate) on ISO dates
DateLE(d1, d2) == DateIndex(d1) <= DateIndex(d2)

\* .eq('warehouse', selectedWarehouse).lte('transaction_date', selectedDate)
SelectedSnapshot(rows, selectedWarehouse, selectedDate) ==
  { r \in rows : /\ r.warehouse = selectedWarehouse
                 /\ DateLE(r.transaction_date, selectedDate) }

\* The orders of rows that put no earlier date before a later one.
OrderedByDate_Ascending(rows) ==
  { s \in [1..Cardinality(rows) -> rows] :
      /\ \A r \in rows : \E i \in DOMAIN s : s[i] = r
      /\ \A i, j \in DOMAIN s :
           i < j => DateLE(s[i].transaction_date, s[j].transaction_date) }

\* .order('transaction_date', { ascending: false }): the orders in which the
\* store may return the rows; rows of one date come in any order.
OrderedByDate(rows) ==
  { s \in [1..Cardinality(rows) -> rows] :
      /\ \A r \in rows : \E i \in DOMAIN s : s[i] = r
      /\ \A i, j \in DOMAIN s :
           i < j => DateLE(s[j].transaction_date, s[i].transaction_date) }

\* snapshot.reduce(...): the first row of each item_name, in order.
RECURSIVE LatestSnapshots(_)
LatestSnapshots(snapshot) ==
  IF snapshot = << >> THEN << >>
  ELSE LET acc == LatestSnapshots(SubSeq(snapshot, 1, Len(snapshot) - 1))
           curr == snapshot[Len(snapshot)]
       IN  IF \E i \in DOMAIN acc : acc[i].item_name = curr.item_name
           THEN acc
           ELSE Append(acc, curr)

\* The rows of the latest snapshots that pre-populate the count.
CountedSnapshot(item) ==
  \/ item.on_hand_total # 0
  \/ item.inbound_total # 0
  \/ item.scheduled_outbound_total # 0

\* latestSnapshots.filter(...).map(...)
InitialCountData(latestSnapshots) ==
  LET kept == SelectSeq(latestSnapshots, CountedSnapshot)
  IN  [i \in 1..Len(kept) |-> [itemName |-> kept[i].item_name, quantity |-> 0]]

\* The effect on [selectedWarehouse, selectedDate]; snapshot is the answer of
\* the store to the query when answer is "ok".
fetchInitialInventory(selectedWarehouse, selectedDate, answer, snapshot) ==
  LET latestSnapshots == LatestSnapshots(snapshot)
      selected == [count EXCEPT !.selectedWarehouse = selectedWarehouse,
                                !.selectedDate = selectedDate]
  IN  /\ selectedWarehouse # "" /\ selectedDate # ""
      /\ count' = IF answer = "ok"
                  THEN [selected EXCEPT
                          !.countData = InitialCountData(latestSnapshots),
                          !.calculatedInventory = latestSnapshots]
                  ELSE selected
      /\ last' = [NoCall EXCEPT
                    !.op = "fetchInitialInventory",
                    !.ok = (answer = "ok"),
                    !.toast = IF answer = "ok" THEN "" ELSE "failed",
                    !.calls = <<"select snapshot">>]
      /\ run' = NoRun
      /\ UNCHANGED <<headers, details, transactions, now, views, inventory, inflight>>

\* addItem of CountEntry: an item not yet counted is appended with quantity 0.
addItem(itemName) ==
  /\ \A i \in DOMAIN count.countData : count.countData[i].itemName # itemName
  /\ count' = [count EXCEPT
                 !.countData = Append(@, [itemName |-> itemName, quantity |-> 0])]
  /\ last' = [NoCall EXCEPT !.op = "addItem"]
  /\ run' = NoRun
  /\ UNCHANGED <<headers, details, transactions, now, views, inventory, inflight>>

\* updateCount of CountEntry
updateCount(index, quantity) ==
  /\ index \in DOMAIN count.countData
  /\ count' = [count EXCEPT !.countData[index].quantity = quantity]
  /\ last' = [NoCall EXCEPT !.op = "updateCount"]
  /\ run' = NoRun
  /\ UNCHANGED <<headers, details, transactions, now, views, inventory, inflight>>

\* calculatedInventory.find(item => item.item_name === itemName)
\*   || { 'On Hand: Total': 0 }, and of that ['On Hand: Total'] || 0
OnHandTotal_NotNegative(calculatedInventory, itemName) ==
  LET found == { i \in DOMAIN calculatedInventory :
                   calculatedInventory[i].item_name = itemName }
      first == CHOOSE i \in found : \A j \in found : i <= j
  IN  IF found = {} \/ calculatedInventory[first].on_hand_total < 0 THEN 0
      ELSE calculatedInventory[first].on_hand_total

OnHandTotal(calculatedInventory, itemName) ==
  LET found == { i \in DOMAIN calculatedInventory :
                   calculatedInventory[i].item_name = itemName }
      first == CHOOSE i \in found : \A j \in found : i <= j
  IN  IF found = {} THEN 0
      ELSE calculatedInventory[first].on_hand_total

\* countData.map(count => ...)
NewVariances(countData, calculatedInventory) ==
  [i \in DOMAIN countData |->
     [itemName |-> countData[i].itemName,
      physicalCount |-> countData[i].quantity,
      calculatedCount |-> OnHandTotal(calculatedInventory, countData[i].itemName),
      variance |-> countData[i].quantity
                     - OnHandTotal(calculatedInventory, countData[i].itemName)]]

\* answer is the store's answer to the query of pending transactions, which
\* runs after the variances are set.
calculateVariances(answer) ==
  /\ count.selectedWarehouse # "" /\ count.selectedDate # ""
  /\ Len(count.countData) # 0
  /\ count' = [count EXCEPT
                 !.variances = NewVariances(count.countData,
                                            count.calculatedInventory)]
  /\ last' = [NoCall EXCEPT
                !.op = "calculateVariances",
                !.ok = (answer = "ok"),
                !.toast = IF answer = "ok" THEN "" ELSE "failed",
                !.calls = <<"select pending">>]
  /\ run' = NoRun
  /\ UNCHANGED <<headers, details, transactions, now, views, inventory, inflight>>

(***************************************************************************)
(* WarehouseReport                                                         *)
(***************************************************************************)
\* The item names that occur, in alphabetical order.
ItemNames == <<"A", "B">>

ItemIndex(item) == CHOOSE i \in 1..Len(ItemNames) : ItemNames[i] = item

\* .eq('Warehouse', name).or('on_hand_total.gt.0,inbound_total.gt.0,
\*   scheduled_outbound_total.gt.0,future_inventory_total.gt.0')
SelectedSummary(rows, name) ==
  { r \in rows : /\ r.Warehouse = name
                 /\ \/ r.on_hand_total > 0
                    \/ r.inbound_total > 0
                    \/ r.scheduled_outbound_total > 0
                    \/ r.future_inventory_total > 0 }

\* .order('Item', { ascending: true })
OrderedByItem(rows) ==
  { s \in [1..Cardinality(rows) -> rows] :
      /\ \A r \in rows : \E i \in DOMAIN s : s[i] = r
      /\ \A i, j \in DOMAIN s :
           i < j => ItemIndex(s[i].Item) <= ItemIndex(s[j].Item) }

\* (data || []).filter(row => ...)
ActiveInventory(data) ==
  SelectSeq(data, LAMBDA row : \/ row.on_hand_total # 0
                               \/ row.inbound_total # 0
                               \/ row.scheduled_outbound_total # 0
                               \/ row.future_inventory_total # 0)

\* data is the answer of the store to the query when answer is "ok"; a
\* failure is logged only.
handleSelectWarehouse(name, answer, data) ==
  /\ inventory' = IF answer = "ok" THEN ActiveInventory(data) ELSE inventory
  /\ last' = [NoCall EXCEPT
                !.op = "handleSelectWarehouse",
                !.ok = (answer = "ok"),
                !.calls = <<"select summary">>]
  /\ run' = NoRun
  /\ UNCHANGED <<headers, details, transactions, now, views, count, inflight>>

(***************************************************************************)
(* TransactionList: fetchTransactions, handleDeleteHeader and              *)
(* handleDeleteDetail                                                      *)
(***************************************************************************)
\* The list is read again from the store.
fetchTransactions(answer) ==
  /\ transactions' = IF answer = "ok" THEN FetchedTransactions(headers, details)
                     ELSE transactions
  /\ last' = [NoCall EXCEPT
                !.op = "fetchTransactions",
                !.ok = (answer = "ok"),
                !.toast = IF answer = "ok" THEN "none" ELSE "failed",
                !.calls = <<"select transactions">>]
  /\ run' = NoRun
  /\ UNCHANGED <<headers, details, now>>

\* delete().eq('transaction_id', transactionId) on transaction_header
DeletedHeaders(hs, transactionId) ==
  { h \in hs : h.transaction_id # transactionId }

\* The store deletes the detail lines of a deleted header with it.
CascadedDetails(ds, transactionId) ==
  { d \in ds : d.transaction_id # transactionId }

\* delete().eq('detail_id', detailId) on transaction_detail
DeletedDetails(ds, detailId) ==
  { d \in ds : d.detail_id # detailId }

handleDeleteHeader(transactionId, answer) ==
  /\ headers' = IF answer = "ok" THEN DeletedHeaders(headers, transactionId)
                ELSE headers
  /\ details' = IF answer = "ok" THEN CascadedDetails(details, transactionId)
                ELSE details
  /\ last' = [NoCall EXCEPT
                !.op = "handleDeleteHeader",
                !.ok = (answer = "ok"),
                !.id = transactionId,
                !.toast = IF answer = "ok" THEN "success" ELSE "failed",
                !.calls = <<"delete header">>]
  /\ run' = NoRun
  /\ UNCHANGED <<transactions, now>>

\* transaction is the row of the list the line is shown under; confirmed is
\* the answer to window.confirm; answer and headerAnswer are the store's
\* answers to the delete of the line and to the delete of the header.
handleDeleteDetail(transaction, detailId, confirmed, answer, headerAnswer) ==
  IF ~confirmed
  THEN /\ last' = [NoCall EXCEPT !.op = "handleDeleteDetail",
                                 !.id = transaction.transaction_id]
       /\ run' = NoRun
       /\ UNCHANGED <<headers, details, transactions, now>>
  ELSE
    LET onlyDetail == Cardinality(transaction.details) = 1
        deleteHeader == answer = "ok" /\ onlyDetail
        headerDeleted == deleteHeader /\ headerAnswer = "ok"
        afterDetail == IF answer = "ok" THEN DeletedDetails(details, detailId)
                       ELSE details
    IN  /\ headers' = IF headerDeleted
                      THEN DeletedHeaders(headers, transaction.transaction_id)
                      ELSE headers
        /\ details' = IF headerDeleted
                      THEN CascadedDetails(afterDetail, transaction.transaction_id)
                      ELSE afterDetail
        /\ last' = [NoCall EXCEPT
                      !.op = "handleDeleteDetail",
                      !.ok = (answer = "ok" /\ (deleteHeader => headerAnswer = "ok")),
                      !.id = transaction.transaction_id,
                      !.toast = IF answer = "ok" /\ (deleteHeader => headerAnswer = "ok")
                                THEN "success" ELSE "failed",
                      !.calls = <<"delete detail">>
                                \o (IF deleteHeader THEN <<"delete header">>
                                    ELSE << >>)]
        /\ run' = NoRun
        /\ UNCHANGED <<transactions, now>>

(***************************************************************************)
(* createTransaction, request by request: two callers whose calls overlap. *)
(* A call awaits the store at the query of the last reference, at the      *)
(* insert of the header and at the insert of the details; between two      *)
(* awaits it runs alone.  The store accepts every request.                 *)
(***************************************************************************)
\* The call of a caller, if it has made one.
CreateOf(caller) == { c \in inflight.creates : c.caller = caller }

\* The calls as they are when the call c has become d.
CreatesWith(c, d) == (inflight.creates \ {c}) \cup {d}

\* The row of the insert into transaction_header.
HeaderRow(data, transaction_id, referenceNumber) ==
  [transaction_id |-> transaction_id,
   transaction_type |-> data.type,
   transaction_date |-> data.date,
   warehouse |-> data.warehouse,
   reference_type |-> data.referenceType,
   reference_number |-> referenceNumber,
   shipment_carrier |-> data.shipmentCarrier,
   shipping_document |-> data.shippingDocument,
   customer_po |-> data.customerPO,
   customer_name |-> data.customerName,
   comments |-> data.comments,
   related_transaction_id |-> NoId]

\* The call is made with a status that is valid for the type, and puts the
\* query of the last reference to the store.
createTransaction_call(caller, data) ==
  /\ CreateOf(caller) = {}
  /\ isStatusValidForType(data.status, data.type)
  /\ inflight' = [inflight EXCEPT
                    !.creates = @ \cup {[caller |-> caller, data |-> data,
                                         awaits |-> "select lastRef",
                                         lastRef |-> << >>, sequence |-> << >>,
                                         transaction_id |-> NoId]}]
  /\ UNCHANGED <<headers, details, transactions, now, last, run, views, count,
                 inventory>>

\* The query is answered: the call computes its sequence and reference
\* number, draws its id and puts the insert of the header to the store.
createTransaction_lastRef(c) ==
  LET lastRef == LastRef(headers, PrefixOf(c.data.type))
  IN  /\ c.awaits = "select lastRef"
      /\ inflight' = [inflight EXCEPT
                        !.creates = CreatesWith(c, [c EXCEPT
                                      !.awaits = "insert header",
                                      !.lastRef = lastRef,
                                      !.sequence = NextSequence(lastRef)])]
      /\ UNCHANGED <<headers, details, transactions, now, last, run, views, count,
                     inventory>>

\* The store inserts the header; the call puts the insert of the details.
createTransaction_header(c) ==
  LET transaction_id == LeastUnused(UsedIds, 1)
      referenceNumber == PrefixOf(c.data.type) \o c.sequence
  IN  /\ c.awaits = "insert header"
      /\ headers' = headers \cup {HeaderRow(c.data, transaction_id, referenceNumber)}
      /\ inflight' = [inflight EXCEPT
                        !.creates = CreatesWith(c, [c EXCEPT
                                      !.awaits = "insert details",
                                      !.transaction_id = transaction_id])]
      /\ UNCHANGED <<details, transactions, now, last, run, views, count, inventory>>

\* The store inserts the details; the call, which is no transfer, fetches
\* the transactions and returns the header.
createTransaction_details(c) ==
  LET n == Len(c.data.items)
      uuids == randomUUIDs(UsedIds, n)
  IN  /\ c.awaits = "insert details"
      /\ ~IsTransfer(c.data)
      /\ details' = details \cup PrimaryDetails(c.data, c.transaction_id, uuids)
      /\ transactions' = FetchedTransactions(headers, details')
      /\ inflight' = [inflight EXCEPT
                        !.creates = CreatesWith(c, [c EXCEPT !.awaits = "returned"])]
      /\ last' = [op |-> "createTransaction",
                  data |-> RequestOf(c.data),
                  ok |-> TRUE,
                  id |-> c.transaction_id,
                  ref |-> PrefixOf(c.data.type) \o c.sequence,
                  toast |-> "success",
                  calls |-> <<"select lastRef", "insert header", "insert details",
                              "select transactions">>]
      /\ run' = NoRun
      /\ UNCHANGED <<headers, now, views, count, inventory>>

(***************************************************************************)
(* Spec: reference numbers and rows.  Creates of every type with and       *)
(* without transfer, each insert of which the store may fail, and count    *)
(* adjustments.                                                            *)
(***************************************************************************)
\* The header rows a create request adds at most.
HeadersOf(data) ==
  IF ~isStatusValidForType(data.status, data.type) THEN 0
  ELSE IF IsTransfer(data) THEN 2 ELSE 1

CreateRequests ==
  [type : TransactionTypes,
   status : {"Pending"},
   warehouse : {"W1"},
   referenceType : ReferenceTypes,
   inventoryStatus : {"Stock"},
   transferToWarehouse : TransferWarehouses,
   transferToInventoryStatus : TransferInventoryStatuses,
   items : {OneItem},
   date : {"2025-01-06"},
   transferDate : {""},
   shipmentCarrier : {"Carrier"},
   shippingDocument : {"Document"},
   customerPO : {"PO"},
   customerName : {"Customer"},
   comments : {"Comment"}]

\* The answers a call can get: none is drawn by a call that is rejected
\* before its first request, and only a transfer issues the inbound inserts.
AnswersFor(data, answers) ==
  { a \in answers :
      /\ ~isStatusValidForType(data.status, data.type)
           => a.lastRef = "ok" /\ a.failAt = "none"
      /\ a.failAt \in {"insert inbound header", "insert inbound details"}
           => IsTransfer(data) }

CreateTransaction ==
  \E data \in CreateRequests :
    /\ Cardinality(headers) + HeadersOf(data) <= MaxHeaders
    /\ \E a \in AnswersFor(data, CreateAnswers) : createTransaction(data, a)
    /\ UNCHANGED countVars

Next ==
  \/ CreateTransaction
  \/ GenerateAdjustment

Spec == Init /\ [][Next]_vars

(***************************************************************************)
(* SpecStatus: line statuses.  Creates of every type with every status,    *)
(* detail updates, advances and count adjustments; no transfers, and the   *)
(* store fails only the reads and the updates.                             *)
(***************************************************************************)
StatusRequests ==
  [type : TransactionTypes,
   status : TransactionStatuses,
   warehouse : {"W1"},
   referenceType : {"Purchase Order"},
   inventoryStatus : {"Stock"},
   transferToWarehouse : {""},
   transferToInventoryStatus : {""},
   items : {TwoItems},
   date : {"2025-01-06"},
   transferDate : {""},
   shipmentCarrier : {"Carrier"},
   shippingDocument : {"Document"},
   customerPO : {"PO"},
   customerName : {"Customer"},
   comments : {"Comment"}]

StatusAnswers == {a \in CreateAnswers : a.failAt = "none" /\ a.lastRef = "ok"}

CreateStatusTransaction ==
  \E data \in StatusRequests :
    /\ Cardinality(headers) + HeadersOf(data) <= MaxStatusHeaders
    /\ \E a \in AnswersFor(data, StatusAnswers) : createTransaction(data, a)
    /\ UNCHANGED countVars

GenerateCountAdjustment ==
  /\ Cardinality(headers) + 1 <= MaxStatusHeaders
  /\ generateAdjustment("W1", "2025-01-06", Variances, now, "none", "error")
  /\ UNCHANGED countVars

NextStatus ==
  \/ CreateStatusTransaction
  \/ UpdateTransactionDetail
  \/ AdvanceTransactionToNextStep
  \/ GenerateCountAdjustment

SpecStatus == Init /\ [][NextStatus]_vars

(***************************************************************************)
(* SpecTransfer: transfers.  Creates of two items with a status other than *)
(* Pending too, with and without destination and transfer-specific         *)
(* inventory status, each insert of which the store may fail.              *)
(***************************************************************************)
TransferRequests ==
  [type : {"Inbound", "Outbound"},
   status : {"Pending", "Shipped"},
   warehouse : {"W1"},
   referenceType : ReferenceTypes,
   inventoryStatus : {"Stock"},
   transferToWarehouse : TransferWarehouses,
   transferToInventoryStatus : {"", "Hold"},
   items : {TwoItems},
   date : {"2025-01-06"},
   transferDate : {""},
   shipmentCarrier : {"Carrier"},
   shippingDocument : {"Document"},
   customerPO : {"PO"},
   customerName : {"Customer"},
   comments : {"Comment"}]

CreateTransferTransaction ==
  \E data \in TransferRequests :
    /\ Cardinality(headers) + HeadersOf(data) <= MaxTransferHeaders
    /\ \E a \in AnswersFor(data, CreateAnswers) : createTransaction(data, a)
    /\ UNCHANGED countVars

NextTransfer == CreateTransferTransaction

SpecTransfer == Init /\ [][NextTransfer]_vars

(***************************************************************************)
(* SpecHeader: edits of headers.  Creates with and without transfer that   *)
(* the store accepts, and header updates that it accepts or fails.         *)
(***************************************************************************)
EditRequests ==
  { data \in CreateRequests : data.type \in {"Inbound", "Outbound"} }

CreateEditTransaction ==
  \E data \in EditRequests :
    /\ Cardinality(headers) + HeadersOf(data) <= MaxEditHeaders
    /\ createTransaction(data, AllOk)
    /\ UNCHANGED countVars

NextHeader ==
  \/ CreateEditTransaction
  \/ UpdateTransactionHeader

SpecHeader == Init /\ [][NextHeader]_vars

(***************************************************************************)
(* SpecCount: a physical count.  The snapshot view holds at most one row   *)
(* per item for the warehouse and date counted; the user selects them,     *)
(* enters counts, calculates the variances and generates the adjustment.   *)
(***************************************************************************)
\* A row of transactions_inventory_snapshot_by_date with only stock on hand.
OnHandRow(item, warehouse, date, onHand) ==
  [item_name |-> item, warehouse |-> warehouse, transaction_date |-> date,
   on_hand_total |-> onHand, inbound_total |-> 0,
   scheduled_outbound_total |-> 0, future_inventory_total |-> 0]

\* The on-hand totals of the view and the quantities counted.
OnHandTotals == {50, -2}
PhysicalCounts == {45, 3}

CountSnapshots ==
  { a \cup b :
      a \in {{}} \cup { {OnHandRow("A", "W1", "2025-01-06", n)} : n \in OnHandTotals },
      b \in {{}} \cup { {OnHandRow("B", "W1", "2025-01-06", n)} : n \in OnHandTotals } }

InitCount ==
  /\ InitLedger
  /\ \E snapshot \in CountSnapshots : views = [NoViews EXCEPT !.snapshot = snapshot]

SelectCount ==
  \E answer \in {"ok", "error"},
     snapshot \in OrderedByDate(SelectedSnapshot(views.snapshot, "W1", "2025-01-06")) :
    fetchInitialInventory("W1", "2025-01-06", answer, snapshot)

AddItem ==
  \E itemName \in {"A", "B"} : addItem(itemName)

UpdateCount ==
  \E index \in 1..MaxCountLines, quantity \in PhysicalCounts :
    updateCount(index, quantity)

CalculateVariances ==
  \E answer \in {"ok", "error"} : calculateVariances(answer)

GenerateAdjustmentOfCount ==
  \E failAt \in {"none", "insert header", "insert details"} :
    /\ Cardinality(headers) + 1 <= MaxCountHeaders
    /\ generateAdjustment(count.selectedWarehouse, count.selectedDate,
                          count.variances, now, failAt, "error")
    /\ UNCHANGED countVars

NextCount ==
  \/ SelectCount
  \/ AddItem
  \/ UpdateCount
  \/ CalculateVariances
  \/ GenerateAdjustmentOfCount

SpecCount == InitCount /\ [][NextCount]_vars

(***************************************************************************)
(* SpecSnapshot: the snapshot read.  The view holds up to MaxSnapshotRows  *)
(* rows, one at most for an item, a warehouse and a date; the user selects *)
(* a warehouse and a cutoff date.                                          *)
(***************************************************************************)
SnapshotRows ==
  { OnHandRow(item, warehouse, Dates[i], onHand) :
      item \in {"A", "B"}, warehouse \in {"W1", "W2"},
      i \in DOMAIN Dates, onHand \in OnHandTotals }

\* The view is by date: no two rows of it are of one item, warehouse and date.
SnapshotViews ==
  { rows \in SUBSET SnapshotRows :
      /\ Cardinality(rows) <= MaxSnapshotRows
      /\ \A r1, r2 \in rows :
           (/\ r1.item_name = r2.item_name
            /\ r1.warehouse = r2.warehouse
            /\ r1.transaction_date = r2.transaction_date) => r1 = r2 }

InitSnapshot ==
  /\ InitLedger
  /\ \E snapshot \in SnapshotViews : views = [NoViews EXCEPT !.snapshot = snapshot]

SelectSnapshot ==
  \E selectedWarehouse \in {"W1", "W2"},
     selectedDate \in {"2025-01-06", "2025-01-07"},
     answer \in {"ok", "error"} :
    \E snapshot \in OrderedByDate(SelectedSnapshot(views.snapshot, selectedWarehouse,
                                                   selectedDate)) :
      fetchInitialInventory(selectedWarehouse, selectedDate, answer, snapshot)

NextSnapshot == SelectSnapshot

SpecSnapshot == InitSnapshot /\ [][NextSnapshot]_vars

(***************************************************************************)
(* SpecActive: the active views.  The store holds one item of one          *)
(* warehouse with any buckets, as a row of the snapshot view and as a row  *)
(* of the summary view; the user starts a count and opens the warehouse    *)
(* report.                                                                 *)
(***************************************************************************)
\* The values of a bucket: a negative, zero and a positive total.
BucketTotals == {-2, 0, 5}

Buckets ==
  [on_hand_total : BucketTotals, inbound_total : BucketTotals,
   scheduled_outbound_total : BucketTotals, future_inventory_total : BucketTotals]

\* The row of transactions_inventory_snapshot_by_date with these buckets.
SnapshotRow(b) ==
  [item_name |-> "A", warehouse |-> "W1", transaction_date |-> "2025-01-06",
   on_hand_total |-> b.on_hand_total, inbound_total |-> b.inbound_total,
   scheduled_outbound_total |-> b.scheduled_outbound_total,
   future_inventory_total |-> b.future_inventory_total]

\* The row of transactions_inventory_summary with these buckets.
SummaryRow(b) ==
  [Item |-> "A", Warehouse |-> "W1",
   on_hand_total |-> b.on_hand_total, inbound_total |-> b.inbound_total,
   scheduled_outbound_total |-> b.scheduled_outbound_total,
   future_inventory_total |-> b.future_inventory_total]

InitActive ==
  /\ InitLedger
  /\ \E b \in Buckets :
       views = [snapshot |-> {SnapshotRow(b)}, summary |-> {SummaryRow(b)}]

SelectActive ==
  \E answer \in {"ok", "error"},
     snapshot \in OrderedByDate(SelectedSnapshot(views.snapshot, "W1", "2025-01-06")) :
    fetchInitialInventory("W1", "2025-01-06", answer, snapshot)

HandleSelectWarehouse ==
  \E answer \in {"ok", "error"},
     data \in OrderedByItem(SelectedSummary(views.summary, "W1")) :
    handleSelectWarehouse("W1", answer, data)

NextActive ==
  \/ SelectActive
  \/ HandleSelectWarehouse

SpecActive == InitActive /\ [][NextActive]_vars

(***************************************************************************)
(* SpecOutcome: what a call reports.  Creates with and without transfer,   *)
(* edits, advances and count adjustments whose writes the store accepts,   *)
(* rejects with the permission-denied code (42501) or fails otherwise.     *)
(***************************************************************************)
OutcomeRequests ==
  { data \in TransferRequests : /\ data.referenceType = "Transfer Order"
                                /\ data.transferToInventoryStatus = "" }

\* An edit of the date and the comments.
OutcomeFields ==
  { fields \in HeaderFields : /\ fields.transaction_date # "undefined"
                              /\ fields.warehouse = "undefined" }

OutcomeAnswers ==
  { a \in [lastRef : {"ok"},
           failAt : {"none", "insert header", "insert details",
                     "insert inbound header", "insert inbound details"},
           failure : {"error", "denied"}] :
      a.failAt = "none" => a.failure = "error" }

StoreAnswers == {"ok", "denied", "error"}

CreateOutcomeTransaction ==
  \E data \in OutcomeRequests :
    /\ Cardinality(headers) + HeadersOf(data) <= MaxOutcomeHeaders
    /\ \E a \in AnswersFor(data, OutcomeAnswers) : createTransaction(data, a)
    /\ UNCHANGED countVars

UpdateOutcomeDetail ==
  \E h \in headers, d \in details, status \in {"Pending", "Shipped"},
     answer \in StoreAnswers :
    /\ d.transaction_id = h.transaction_id
    /\ updateTransactionDetail(h.transaction_id, [d EXCEPT !.status = status], "ok", answer)
    /\ UNCHANGED countVars

UpdateOutcomeHeader ==
  \E t \in transactions, fields \in OutcomeFields, answer \in StoreAnswers :
    /\ updateTransactionHeader(t.transaction_id, fields, answer)
    /\ UNCHANGED countVars

AdvanceOutcome ==
  \E t \in transactions, answer \in StoreAnswers :
    /\ advanceTransactionToNextStep(t, answer)
    /\ UNCHANGED countVars

GenerateOutcomeAdjustment ==
  \E failAt \in {"none", "insert header", "insert details"},
     failure \in {"error", "denied"} :
    /\ failAt = "none" => failure = "error"
    /\ Cardinality(headers) + 1 <= MaxOutcomeHeaders
    /\ generateAdjustment("W1", "2025-01-06", Variances, now, failAt, failure)
    /\ UNCHANGED countVars

NextOutcome ==
  \/ CreateOutcomeTransaction
  \/ UpdateOutcomeDetail
  \/ UpdateOutcomeHeader
  \/ AdvanceOutcome
  \/ GenerateOutcomeAdjustment

SpecOutcome == Init /\ [][NextOutcome]_vars

(***************************************************************************)
(* SpecDelete: deletions from the list.  Creates of two lines that the     *)
(* store accepts, deletions of lines and of headers from the list as it    *)
(* was last fetched, and fetches of the list.                              *)
(***************************************************************************)
DeleteRequests ==
  { data \in StatusRequests : data.type = "Inbound" /\ data.status = "Pending" }

CreateDeleteTransaction ==
  \E data \in DeleteRequests :
    /\ ParseInt(NextSequence(LastRef(headers, PrefixOf(data.type)))).value
         <= MaxDeleteSequence
    /\ createTransaction(data, AllOk)
    /\ UNCHANGED countVars

FetchTransactions ==
  \E answer \in {"ok", "error"} :
    /\ fetchTransactions(answer)
    /\ UNCHANGED countVars

HandleDeleteHeader ==
  \E t \in transactions, answer \in {"ok", "error"} :
    /\ handleDeleteHeader(t.transaction_id, answer)
    /\ UNCHANGED countVars

HandleDeleteDetail ==
  \E t \in transactions, confirmed \in BOOLEAN,
     answer \in {"ok", "error"}, headerAnswer \in {"ok", "error"} :
    \E detailId \in t.details :
      /\ handleDeleteDetail(t, detailId, confirmed, answer, headerAnswer)
      /\ UNCHANGED countVars

NextDelete ==
  \/ CreateDeleteTransaction
  \/ FetchTransactions
  \/ HandleDeleteHeader
  \/ HandleDeleteDetail

SpecDelete == Init /\ [][NextDelete]_vars

(***************************************************************************)
(* SpecRace: overlapping creates.  Each of MaxCallers callers makes one    *)
(* createTransaction call of one line without transfer; the requests of    *)
(* the calls reach the store in any order.                                 *)
(***************************************************************************)
RaceRequests ==
  { data \in CreateRequests : /\ data.type \in {"Inbound", "Outbound"}
                              /\ data.referenceType = "Purchase Order"
                              /\ data.transferToWarehouse = "" }

CallCreate ==
  \E caller \in 1..MaxCallers, data \in RaceRequests : createTransaction_call(caller, data)

AnswerLastRef ==
  \E c \in inflight.creates : createTransaction_lastRef(c)

AnswerHeader ==
  \E c \in inflight.creates : createTransaction_header(c)

AnswerDetails ==
  \E c \in inflight.creates : createTransaction_details(c)

NextRace ==
  \/ CallCreate
  \/ AnswerLastRef
  \/ AnswerHeader
  \/ AnswerDetails

SpecRace == Init /\ [][NextRace]_vars

(***************************************************************************)
(* The claims.  The tables and the reference format below are written from *)
(* the specification (sections 4.1 and 4.2), not from the code.            *)
(***************************************************************************)
KnownTypes == {"Inbound", "Outbound", "Adjustment"}

StatusTable(type) ==
  CASE type = "Inbound" -> {"Pending", "Received"}
    [] type = "Outbound" -> {"Pending", "Shipped"}
    [] type = "Adjustment" -> {"Pending", "Completed"}
    [] OTHER -> TransactionStatuses

TerminalStatus(type) ==
  CASE type = "Inbound" -> "Received"
    [] type = "Outbound" -> "Shipped"
    [] type = "Adjustment" -> "Completed"

ClaimPrefix(type) ==
  CASE type = "Inbound" -> <<"I", "B", "-">>
    [] type = "Outbound" -> <<"O", "B", "-">>
    [] OTHER -> <<"A", "D", "J", "-">>

\* n written with exactly five decimal digits.
FiveDigits(n) == [i \in 1..5 |-> DigitChars[((n \div (10 ^ (5 - i))) % 10) + 1]]

HasPrefix(s, prefix) ==
  Len(s) >= Len(prefix) /\ SubSeq(s, 1, Len(prefix)) = prefix

AllDigits(s) == \A i \in 1..Len(s) : IsDigit(s[i])

Maximum(S) == CHOOSE x \in S : \A y \in S : y <= x

HeaderOf(transactionId) == CHOOSE h \in headers : h.transaction_id = transactionId

\* The call put the request to the store.
Issued(call, request) == \E i \in DOMAIN call.calls : call.calls[i] = request

\* C1: isStatusValidForType(status, type) is true exactly for the pairs of
\* the validity table (Inbound: Pending, Received; Outbound: Pending,
\* Shipped; Adjustment: Pending, Completed; any other type: every status),
\* and the lines a createTransaction has just written carry a status of the
\* table row of their header's type.
C1_StatusValidIffInTable ==
  /\ \A type \in TransactionTypes, status \in TransactionStatuses :
       isStatusValidForType(status, type) <=> status \in StatusTable(type)
  /\ (last.op = "createTransaction" /\ last.ok)
       => \A d \in DetailsOf(details, last.id) :
            d.status \in StatusTable(HeaderOf(last.id).transaction_type)

\* A create of an unrecognized type with a status outside the four known
\* ones has been accepted.
C1_Witness ==
  /\ last.op = "createTransaction" /\ last.ok
  /\ HeaderOf(last.id).transaction_type = "Unrecognized"
  /\ \E d \in DetailsOf(details, last.id) : d.status = "Cancelled"

\* C2: getNextStatusForType returns Received for Inbound, Shipped for
\* Outbound, Completed for Adjustment and null for every other type, and
\* the status returned is valid for the type; an advance ends with "no next
\* step" exactly on a header of another type, and a successful advance
\* leaves no Pending line on its header.
C2_NextStatusOnlyForKnownTypes ==
  /\ \A type \in TransactionTypes :
       /\ getNextStatusForType(type)
            = (IF type \in KnownTypes THEN TerminalStatus(type) ELSE "none")
       /\ type \in KnownTypes
            => isStatusValidForType(getNextStatusForType(type), type)
  /\ last.op = "advanceTransactionToNextStep"
       => /\ (last.toast = "no next step")
               <=> HeaderOf(last.id).transaction_type \notin KnownTypes
          /\ last.ok => \A d \in DetailsOf(details, last.id) : d.status # "Pending"

\* An Adjustment header has been advanced and holds a Completed line.
C2_Witness ==
  /\ last.op = "advanceTransactionToNextStep" /\ last.ok
  /\ HeaderOf(last.id).transaction_type = "Adjustment"
  /\ \E d \in DetailsOf(details, last.id) : d.status = "Completed"

C4_NoDuplicateReference ==
  \A h1, h2 \in headers :
    h1.reference_number = h2.reference_number => h1 = h2

\* C5: the reference number a createTransaction is assigned (all of whose
\* requests the store accepts) is the prefix of the type followed by exactly
\* five decimal digits, and their value is one more than the highest
\* numeric suffix of the references with that prefix already in the ledger.
C5_PrefixAndFiveDigits ==
  [][\A data \in CreateRequests :
       createTransaction(data, AllOk)
       => LET prefix == ClaimPrefix(data.type)
              suffix == SubSeq(last'.ref, Len(prefix) + 1, Len(last'.ref))
              suffixes == { DigitsValue(SubSeq(h.reference_number, Len(prefix) + 1,
                                               Len(h.reference_number))) :
                            h \in { g \in headers :
                                      /\ HasPrefix(g.reference_number, prefix)
                                      /\ Len(g.reference_number) > Len(prefix)
                                      /\ AllDigits(SubSeq(g.reference_number,
                                                          Len(prefix) + 1,
                                                          Len(g.reference_number))) } }
          IN  /\ HasPrefix(last'.ref, prefix)
              /\ Len(suffix) = 5
              /\ AllDigits(suffix)
              /\ suffixes # {} => DigitsValue(suffix) = Maximum(suffixes) + 1]_vars

\* C6: the status of every detail line belongs to the valid set of the type
\* of the header that owns the line.
C6_LineStatusValidForHeaderType ==
  \A d \in details : \A h \in headers :
    h.transaction_id = d.transaction_id
      => d.status \in StatusTable(h.transaction_type)

\* C7: a createTransaction with a status that is not valid for the type
\* requested, and an updateTransactionDetail with a status that is not valid
\* for the type of the header that owns the detail, fail and put no write to
\* the store: headers and detail lines stay as they were.
C7_InvalidStatusRejectedWithoutWrite ==
  [][/\ \A data \in StatusRequests :
          (createTransaction(data, AllOk) /\ data.status \notin StatusTable(data.type))
          => /\ headers' = headers /\ details' = details
             /\ ~last'.ok /\ last'.calls = << >>
     /\ \A h \in headers, d \in details, status \in TransactionStatuses,
           lookup \in {"ok", "error"}, answer \in {"ok", "error"} :
          (/\ updateTransactionDetail(h.transaction_id,
                                      [d EXCEPT !.status = status], lookup, answer)
           /\ status \notin StatusTable(HeaderOf(d.transaction_id).transaction_type))
          => /\ headers' = headers /\ details' = details
             /\ ~last'.ok /\ ~Issued(last', "update detail")]_vars

\* C8: an advance of a fetched header of type Inbound, Outbound or
\* Adjustment that the store accepts sets exactly the lines of that header
\* that are Pending to the terminal status of the type and reports success
\* (also when no line is Pending, and then the ledger is unchanged); it
\* changes no other line and no header.  An advance the store fails changes
\* nothing.
C8_AdvanceFlipsOnlyPendingLines ==
  [][\A t \in transactions, answer \in {"ok", "error"} :
       (advanceTransactionToNextStep(t, answer) /\ t.transaction_type \in KnownTypes)
       => /\ headers' = headers
          /\ {d.detail_id : d \in details'} = {d.detail_id : d \in details}
          /\ \A d \in details : \E e \in details' :
               /\ e.detail_id = d.detail_id
               /\ e = IF /\ answer = "ok"
                         /\ d.transaction_id = t.transaction_id
                         /\ d.status = "Pending"
                      THEN [d EXCEPT !.status = TerminalStatus(t.transaction_type)]
                      ELSE d
          /\ last'.ok = (answer = "ok")]_vars

\* A header has been advanced to its terminal status while a line of
\* another header is Pending.
C8_Witness ==
  /\ last.op = "advanceTransactionToNextStep" /\ last.ok
  /\ \E d \in DetailsOf(details, last.id) :
       d.status = TerminalStatus(HeaderOf(last.id).transaction_type)
  /\ \E d \in details : d.transaction_id # last.id /\ d.status = "Pending"

\* C9: an advance of a header whose type is none of Inbound, Outbound and
\* Adjustment fails and puts no request to the store: every header and
\* every detail line stays as it was.
C9_AdvanceOfOtherTypeFails ==
  [][\A t \in transactions, answer \in {"ok", "error"} :
       (advanceTransactionToNextStep(t, answer) /\ t.transaction_type \notin KnownTypes)
       => /\ headers' = headers /\ details' = details
          /\ ~last'.ok
          /\ last'.calls = << >>]_vars

\* An advance of a header of another type, which holds a Pending line, has
\* ended with "no next step".
C9_Witness ==
  /\ last.op = "advanceTransactionToNextStep"
  /\ last.toast = "no next step"
  /\ \E d \in DetailsOf(details, last.id) : d.status = "Pending"

\* C10: a createTransaction puts the insert of a mirror header to the store
\* exactly when the reference type of the request is 'Transfer Order', a
\* destination warehouse is supplied and the primary header and details are
\* written; it writes a mirror header in no other case, and then an Inbound
\* one; a successful transfer adds the primary and one mirror header, every
\* other successful create adds exactly one header.
C10_MirrorIffTransfer ==
  [][last'.op = "createTransaction"
     => LET transfer == /\ last'.data.referenceType = "Transfer Order"
                        /\ last'.data.transferToWarehouse # ""
            new == headers' \ headers
            primaries == {h \in new : h.related_transaction_id = NoId}
            mirrors == {h \in new : h.related_transaction_id # NoId}
            committed == \E h \in primaries :
                           DetailsOf(details' \ details, h.transaction_id) # {}
        IN  /\ Issued(last', "insert inbound header") <=> (transfer /\ committed)
            /\ mirrors # {}
                 => /\ Issued(last', "insert inbound header")
                    /\ \A h \in mirrors : h.transaction_type = "Inbound"
            /\ last'.ok
                 => /\ Cardinality(primaries) = 1
                    /\ Cardinality(mirrors) = (IF transfer THEN 1 ELSE 0)]_vars

\* A transfer has succeeded and its Inbound mirror is in the ledger.
C10_Witness ==
  /\ last.op = "createTransaction" /\ last.ok
  /\ \E h \in headers :
       h.related_transaction_id = last.id /\ h.transaction_type = "Inbound"

\* C11: a successful createTransaction of an Outbound transfer to a
\* warehouse adds exactly two headers: the primary, Outbound, with one
\* line per item at the status requested, and one Inbound header at the
\* destination whose related_transaction_id is the primary's id and whose
\* lines, one per item, are all Pending.
C11_OutboundTransferAddsPrimaryAndMirror ==
  [][\A data \in TransferRequests, a \in {b \in CreateAnswers : b.failAt = "none"} :
       (/\ createTransaction(data, a)
        /\ last'.ok
        /\ data.type = "Outbound"
        /\ data.referenceType = "Transfer Order"
        /\ data.transferToWarehouse # "")
       => LET new == headers' \ headers
          IN  /\ Cardinality(new) = 2
              /\ \E p \in new, m \in new :
                   /\ p.transaction_id = last'.id
                   /\ p.transaction_type = "Outbound"
                   /\ Cardinality(DetailsOf(details', p.transaction_id)) = Len(data.items)
                   /\ \A d \in DetailsOf(details', p.transaction_id) :
                        d.status = data.status
                   /\ m # p
                   /\ m.transaction_type = "Inbound"
                   /\ m.warehouse = data.transferToWarehouse
                   /\ m.related_transaction_id = p.transaction_id
                   /\ Cardinality(DetailsOf(details', m.transaction_id)) = Len(data.items)
                   /\ \A d \in DetailsOf(details', m.transaction_id) :
                        d.status = "Pending"
              /\ details \subseteq details']_vars

\* An Outbound transfer requested as Shipped has succeeded: its lines are
\* Shipped and the lines of its mirror are Pending.
C11_Witness ==
  /\ last.op = "createTransaction" /\ last.ok
  /\ HeaderOf(last.id).transaction_type = "Outbound"
  /\ \A d \in DetailsOf(details, last.id) : d.status = "Shipped"
  /\ \E m \in headers :
       /\ m.related_transaction_id = last.id
       /\ DetailsOf(details, m.transaction_id) # {}
       /\ \A d \in DetailsOf(details, m.transaction_id) : d.status = "Pending"

\* The columns of a header that updateTransactionHeader may write.
SameButEditable(g, h) ==
  [g EXCEPT !.transaction_date = h.transaction_date,
            !.warehouse = h.warehouse,
            !.shipment_carrier = h.shipment_carrier,
            !.shipping_document = h.shipping_document,
            !.customer_po = h.customer_po,
            !.customer_name = h.customer_name,
            !.comments = h.comments] = h

\* C12: an updateTransactionHeader changes at most transaction_date,
\* warehouse, shipment_carrier, shipping_document, customer_po,
\* customer_name and comments of the header with the id given, no other
\* header and no detail line; and in every step every header keeps its
\* transaction_type, reference_number and related_transaction_id.
C12_HeaderUpdateFrame ==
  [][/\ \A h \in headers : \E g \in headers' :
          /\ g.transaction_id = h.transaction_id
          /\ g.transaction_type = h.transaction_type
          /\ g.reference_number = h.reference_number
          /\ g.related_transaction_id = h.related_transaction_id
     /\ \A t \in transactions, fields \in HeaderFields, answer \in {"ok", "error"} :
          updateTransactionHeader(t.transaction_id, fields, answer)
          => /\ details' = details
             /\ Cardinality(headers') = Cardinality(headers)
             /\ \A h \in headers :
                  IF h.transaction_id = t.transaction_id
                  THEN \E g \in headers' : SameButEditable(g, h)
                  ELSE h \in headers']_vars

\* The date of a header has been edited while another header keeps the
\* date of its creation.
C12_Witness ==
  /\ last.op = "updateTransactionHeader" /\ last.ok
  /\ HeaderOf(last.id).transaction_date = "2025-01-07"
  /\ HeaderOf(last.id).warehouse = "W1"
  /\ \E h \in headers :
       h.transaction_id # last.id /\ h.transaction_date = "2025-01-06"

\* The rows of the snapshot view for the warehouse and date selected and one
\* item.
SnapshotRowsOf(itemName) ==
  { r \in SelectedSnapshot(views.snapshot, count.selectedWarehouse,
                           count.selectedDate) : r.item_name = itemName }

\* The hook holds the latest snapshots of the warehouse and date selected.
SnapshotLoaded ==
  /\ count.selectedWarehouse # "" /\ count.selectedDate # ""
  /\ \E snapshot \in OrderedByDate(SelectedSnapshot(views.snapshot,
                                                    count.selectedWarehouse,
                                                    count.selectedDate)) :
       count.calculatedInventory = LatestSnapshots(snapshot)

\* C13: after calculateVariances on a loaded snapshot there is one variance
\* per counted item, and it is the quantity counted minus the on-hand total
\* of the item's snapshot row, taken as it is when negative and as 0 when the
\* item has no row.
C13_VarianceIsCountMinusOnHand ==
  (last.op = "calculateVariances" /\ SnapshotLoaded) =>
    /\ Len(count.variances) = Len(count.countData)
    /\ \A i \in DOMAIN count.variances :
         LET v == count.variances[i]
             rows == SnapshotRowsOf(v.itemName)
             onHand == IF rows = {} THEN 0
                       ELSE (CHOOSE r \in rows : TRUE).on_hand_total
         IN  /\ v.itemName = count.countData[i].itemName
             /\ v.physicalCount = count.countData[i].quantity
             /\ v.variance = v.physicalCount - onHand

\* 45 counted against 50 on hand gives -5, and 3 counted against -2 gives 5.
C13_Witness ==
  /\ last.op = "calculateVariances"
  /\ SnapshotLoaded
  /\ \E i \in DOMAIN count.variances :
       /\ count.variances[i].physicalCount = 45
       /\ count.variances[i].calculatedCount = 50
       /\ count.variances[i].variance = -5
  /\ \E i \in DOMAIN count.variances :
       /\ count.variances[i].physicalCount = 3
       /\ count.variances[i].calculatedCount = -2
       /\ count.variances[i].variance = 5

\* The positions of the hook's variances whose value is not zero.
NonZeroVariances == { i \in DOMAIN count.variances : count.variances[i].variance # 0 }

\* C14: a generateAdjustment that the store accepts adds one header, of type
\* Adjustment and reference type 'Inventory Count', and for each variance
\* that is not zero exactly one line of that header, with quantity
\* |variance|, status Completed, inventory status Stock and the comment
\* 'Count overage' for a positive and 'Count shortage' for a negative
\* variance; it adds no other line.
C14_OneLinePerNonZeroVariance ==
  [][ (last'.op = "generateAdjustment" /\ last'.ok) =>
        LET newHeaders == headers' \ headers
            newDetails == details' \ details
        IN  /\ Cardinality(newHeaders) = 1
            /\ \A h \in newHeaders :
                 /\ h.transaction_type = "Adjustment"
                 /\ h.reference_type = "Inventory Count"
                 /\ \A d \in newDetails : d.transaction_id = h.transaction_id
            /\ Cardinality(newDetails) = Cardinality(NonZeroVariances)
            /\ \A i \in NonZeroVariances :
                 LET v == count.variances[i]
                     lines == { d \in newDetails : d.item_name = v.itemName }
                 IN  /\ Cardinality(lines) = 1
                     /\ \A d \in lines :
                          /\ d.quantity = Abs(v.variance)
                          /\ d.status = "Completed"
                          /\ d.inventory_status = "Stock"
                          /\ v.variance > 0 => d.comments = "Count overage"
                          /\ v.variance < 0 => d.comments = "Count shortage"
      ]_vars

\* An accepted adjustment of a count with an overage and an item counted as
\* calculated has written the one line.
C14_Witness ==
  /\ last.op = "generateAdjustment" /\ last.ok
  /\ \E i \in DOMAIN count.variances : count.variances[i].variance = 0
  /\ \E i \in DOMAIN count.variances : count.variances[i].variance > 0
  /\ Cardinality(details) = 1
  /\ \A d \in details : d.comments = "Count overage"

\* The sum of the quantities of a set of detail lines.
RECURSIVE SumOfQuantities(_)
SumOfQuantities(lines) ==
  IF lines = {} THEN 0
  ELSE LET d == CHOOSE x \in lines : TRUE
       IN  d.quantity + SumOfQuantities(lines \ {d})

\* The lines of Adjustment headers of the warehouse counted, dated at the
\* date counted, for one item.
AdjustmentLinesOf(itemName) ==
  { d \in details :
      /\ d.item_name = itemName
      /\ HeaderOf(d.transaction_id).transaction_type = "Adjustment"
      /\ HeaderOf(d.transaction_id).warehouse = count.selectedWarehouse
      /\ HeaderOf(d.transaction_id).transaction_date = count.selectedDate }

\* A line's quantity is a magnitude and the type of its header gives the
\* direction (section 3): an Adjustment either adds or takes away.
AdjustmentDirections == {1, -1}

\* On-hand derived again from the ledger: the snapshot's on-hand total and
\* the adjustment lines written since, in the direction of their type.
ReDerivedOnHand(itemName, direction) ==
  LET rows == SnapshotRowsOf(itemName)
      onHand == IF rows = {} THEN 0
                ELSE (CHOOSE r \in rows : TRUE).on_hand_total
  IN  onHand + direction * SumOfQuantities(AdjustmentLinesOf(itemName))

\* The variances are those of the count entered and the snapshot loaded.
VariancesOfCount ==
  /\ SnapshotLoaded
  /\ count.variances = NewVariances(count.countData, count.calculatedInventory)

\* C15: after a generateAdjustment that the store accepts, with one
\* direction for Adjustment lines, the on-hand derived again from the ledger
\* is, for every counted item whose variance is not zero, the quantity
\* counted.
C15_AdjustmentRestoresPhysicalCount ==
  (last.op = "generateAdjustment" /\ last.ok /\ VariancesOfCount) =>
    \E direction \in AdjustmentDirections :
      \A i \in NonZeroVariances :
        ReDerivedOnHand(count.variances[i].itemName, direction)
          = count.variances[i].physicalCount

\* The rows of the snapshot view for the warehouse selected, not after the
\* date selected.
RowsAtCutoff == SelectedSnapshot(views.snapshot, count.selectedWarehouse,
                                 count.selectedDate)

\* No row of the same item at the cutoff is of a later date.
LatestAtCutoff(row) ==
  /\ row \in RowsAtCutoff
  /\ \A r \in RowsAtCutoff :
       r.item_name = row.item_name => DateLE(r.transaction_date, row.transaction_date)

\* C16: the snapshot that a read of the view leaves in the hook has at most
\* one row for an item, each of its rows is the view's row of the greatest
\* date not after the cutoff for its item and the warehouse, as the view has
\* it, and every item with a row at the cutoff has one.
C16_LatestRowPerItem ==
  (last.op = "fetchInitialInventory" /\ last.ok) =>
    LET snapshot == count.calculatedInventory
    IN  /\ \A i, j \in DOMAIN snapshot :
             snapshot[i].item_name = snapshot[j].item_name => i = j
        /\ \A i \in DOMAIN snapshot : LatestAtCutoff(snapshot[i])
        /\ \A r \in RowsAtCutoff :
             \E i \in DOMAIN snapshot : snapshot[i].item_name = r.item_name

\* A read when the item has two rows not after the cutoff: the later one is
\* kept, with its own total.
C16_Witness ==
  /\ last.op = "fetchInitialInventory" /\ last.ok
  /\ \E r1, r2 \in RowsAtCutoff :
       /\ r1.item_name = r2.item_name
       /\ r1.transaction_date # r2.transaction_date
       /\ r1.on_hand_total # r2.on_hand_total
       /\ DateLE(r1.transaction_date, r2.transaction_date)
       /\ count.calculatedInventory = <<r2>>

\* Every bucket of the row is exactly zero.
AllBucketsZero(row) ==
  /\ row.on_hand_total = 0
  /\ row.inbound_total = 0
  /\ row.scheduled_outbound_total = 0
  /\ row.future_inventory_total = 0

\* C17: a count pre-populated from the snapshot leaves out an item exactly
\* when every bucket of its row is zero, and so does the warehouse report
\* with the rows of the summary.
C17_LeftOutIffAllBucketsZero ==
  /\ (last.op = "fetchInitialInventory" /\ last.ok) =>
       \A r \in views.snapshot :
         (\A i \in DOMAIN count.countData : count.countData[i].itemName # r.item_name)
           <=> AllBucketsZero(r)
  /\ (last.op = "handleSelectWarehouse" /\ last.ok) =>
       \A r \in views.summary :
         (\A i \in DOMAIN inventory : inventory[i] # r) <=> AllBucketsZero(r)

\* The messages that tell the user that permission is missing.
DeniedToasts == {"denied create", "denied details", "denied action",
                 "denied update", "denied update header"}

\* The step is a call of a writing operation one of whose writes the store
\* answers with rejection.
RejectedWrite(rejection) ==
  \/ \E data \in OutcomeRequests :
       \E a \in AnswersFor(data, OutcomeAnswers) :
         /\ a.failAt # "none" /\ a.failure = rejection
         /\ createTransaction(data, a)
  \/ \E h \in headers, d \in details, status \in {"Pending", "Shipped"} :
       /\ updateTransactionDetail(h.transaction_id, [d EXCEPT !.status = status],
                                  "ok", rejection)
       /\ Issued(last', "update detail")
  \/ \E t \in transactions, fields \in OutcomeFields :
       updateTransactionHeader(t.transaction_id, fields, rejection)
  \/ \E t \in transactions :
       /\ advanceTransactionToNextStep(t, rejection)
       /\ Issued(last', "update details")
  \/ \E failAt \in {"insert header", "insert details"} :
       generateAdjustment("W1", "2025-01-06", Variances, now, failAt, rejection)

\* C18: a call of a writing operation whose write the store rejects with
\* the permission-denied code shows a permission message, and one whose
\* write the store fails otherwise does not.
C18_DeniedIsNotGenericFailure ==
  [][ /\ RejectedWrite("denied") => last'.toast \in DeniedToasts
      /\ RejectedWrite("error") => last'.toast \notin DeniedToasts ]_vars

\* The outcome of a call: what it returns and the message it shows.
OutcomeOf(call) == [ok |-> call.ok, id |-> call.id, ref |-> call.ref,
                    toast |-> call.toast]

\* The call was a createTransaction that wrote nothing: its status was
\* rejected or the insert of its header failed.
WroteNothing(call) ==
  /\ call.op = "createTransaction"
  /\ ~call.ok
  /\ ~Issued(call, "insert details")

\* The step is a createTransaction whose inbound header or inbound details
\* the store does not accept, after its own header and details are written.
MirrorInsertFails ==
  \E data \in OutcomeRequests :
    \E a \in AnswersFor(data, OutcomeAnswers) :
      /\ a.failAt \in {"insert inbound header", "insert inbound details"}
      /\ createTransaction(data, a)

\* C19: the outcome of a create whose mirror insert fails is not the outcome
\* of a create that wrote nothing.
C19_MirrorFailureIsDistinct ==
  [][ (WroteNothing(last) /\ MirrorInsertFails)
        => OutcomeOf(last') # OutcomeOf(last) ]_vars

\* C20: a detail deletion that the store accepts leaves no header without a
\* line, and removes no header that had a line other than the one deleted.
C20_NoHeaderWithoutLines ==
  [][ (last'.op = "handleDeleteDetail" /\ last'.ok) =>
        /\ \A h \in headers' : DetailsOf(details', h.transaction_id) # {}
        /\ \A h \in headers \ headers' :
             Cardinality(DetailsOf(details, h.transaction_id)) <= 1 ]_vars

\* The numeric suffix of the reference a query of the last reference
\* returned, 0 when it returned none.
SuffixRead(lastRef) ==
  IF lastRef = << >> THEN 0
  ELSE DigitsValue(SubSeq(lastRef[1], Len(lastRef[1]) - 4, Len(lastRef[1])))

\* The store has inserted the header of the call.
HeaderInserted(c) == c.awaits \in {"insert details", "returned"}

\* C21: the header a call commits carries the prefix of its type and one
\* more than the suffix the call read; so two overlapping calls of one type
\* that read the same last reference before either header is inserted both
\* commit, and the ledger holds their two headers with one reference number.
C21_OverlappingCreatesShareReference ==
  /\ \A c \in inflight.creates :
       HeaderInserted(c) =>
         \E h \in headers :
           /\ h.transaction_id = c.transaction_id
           /\ h.reference_number
                = ClaimPrefix(c.data.type) \o FiveDigits(SuffixRead(c.lastRef) + 1)
  /\ \A c1, c2 \in inflight.creates :
       (/\ c1.caller # c2.caller
        /\ c1.data.type = c2.data.type
        /\ HeaderInserted(c1) /\ HeaderInserted(c2)
        /\ c1.lastRef = c2.lastRef)
         => \E h1, h2 \in headers :
              /\ h1.transaction_id = c1.transaction_id
              /\ h2.transaction_id = c2.transaction_id
              /\ h1 # h2
              /\ h1.reference_number = h2.reference_number

\* Two calls of one type have returned and their headers carry the same
\* reference number.
C21_Witness ==
  \E c1, c2 \in inflight.creates :
    /\ c1.caller # c2.caller
    /\ c1.data.type = c2.data.type
    /\ c1.awaits = "returned" /\ c2.awaits = "returned"
    /\ \E h1, h2 \in headers :
         /\ h1.transaction_id = c1.transaction_id
         /\ h2.transaction_id = c2.transaction_id
         /\ h1 # h2
         /\ h1.reference_number = h2.reference_number

\* C22: a createTransaction that ends in failure leaves in the ledger no
\* header of its own without detail lines, and no primary of a transfer of
\* its own without the mirror header and the mirror's detail lines.
C22_FailedCreateLeavesNothingPartial ==
  [][ (last'.op = "createTransaction" /\ ~last'.ok) =>
        \A h \in headers' \ headers :
          /\ DetailsOf(details', h.transaction_id) # {}
          /\ (IsTransfer(last'.data) /\ h.related_transaction_id = NoId) =>
               \E m \in headers' :
                 /\ m.related_transaction_id = h.transaction_id
                 /\ DetailsOf(details', m.transaction_id) # {} ]_vars

\* C23: a step of updateTransactionDetail or advanceTransactionToNextStep
\* leaves the status of every line that is not Pending as it is.
C23_AdvancedLineIsTerminal ==
  [][ last'.op \in {"updateTransactionDetail", "advanceTransactionToNextStep"} =>
        \A d \in details : \A e \in details' :
          (e.detail_id = d.detail_id /\ d.status # "Pending")
            => e.status = d.status ]_vars

\* The place of a request among the requests of a call, 0 when the call did
\* not put it.
PlaceOf(call, request) ==
  IF Issued(call, request)
  THEN CHOOSE i \in DOMAIN call.calls : call.calls[i] = request
  ELSE 0

\* The request was put, and put after the other one.
PutAfter(call, request, earlier) ==
  0 < PlaceOf(call, earlier) /\ PlaceOf(call, earlier) < PlaceOf(call, request)

\* C24: a createTransaction puts the insert of its details only after the
\* insert of its header, and the inserts of the mirror only after both; when
\* the store fails an insert, the call puts none of the inserts that come
\* after it.  A generateAdjustment puts the insert of its details after the
\* insert of its header, and not at all when that has failed.
C24_InsertsInOrder ==
  [][ /\ last'.op = "createTransaction" =>
         \A data \in OutcomeRequests : \A a \in AnswersFor(data, OutcomeAnswers) :
           createTransaction(data, a) =>
             /\ Issued(last', "insert details")
                  => /\ PutAfter(last', "insert details", "insert header")
                     /\ a.failAt # "insert header"
             /\ Issued(last', "insert inbound header")
                  => /\ PutAfter(last', "insert inbound header", "insert details")
                     /\ a.failAt \notin {"insert header", "insert details"}
             /\ Issued(last', "insert inbound details")
                  => /\ PutAfter(last', "insert inbound details", "insert inbound header")
                     /\ a.failAt \notin {"insert header", "insert details",
                                         "insert inbound header"}
      /\ last'.op = "generateAdjustment" =>
         \A failAt \in {"none", "insert header", "insert details"},
            failure \in {"error", "denied"} :
           generateAdjustment("W1", "2025-01-06", Variances, now, failAt, failure) =>
             (Issued(last', "insert details")
                => /\ PutAfter(last', "insert details", "insert header")
                   /\ failAt # "insert header") ]_vars

\* A transfer all of whose four inserts were put to the store.
C24_Witness ==
  /\ last.op = "createTransaction"
  /\ PutAfter(last, "insert inbound details", "insert inbound header")
  /\ PutAfter(last, "insert inbound header", "insert details")
  /\ PutAfter(last, "insert details", "insert header")

\* The part of a reference number after the prefix of its header's type.
SuffixOf(h) ==
  SubSeq(h.reference_number, Len(ClaimPrefix(h.transaction_type)) + 1,
         Len(h.reference_number))

\* The headers that mirror a transfer.
Mirrors == { m \in headers : m.related_transaction_id # NoId }

\* C25: the reference number of a mirror header is IB- followed by the
\* suffix of the reference number of its primary.
C25_MirrorReferenceSharesSuffix ==
  \A m \in Mirrors :
    \E p \in headers :
      /\ p.transaction_id = m.related_transaction_id
      /\ m.reference_number = <<"I", "B", "-">> \o SuffixOf(p)

\* The mirror of an Outbound transfer carries IB-00001 although the ledger
\* held an Inbound header IB-00001 before: it is not the next of the Inbound
\* sequence.
C25_Witness ==
  \E m \in Mirrors : \E h \in headers \ Mirrors :
    /\ HeaderOf(m.related_transaction_id).transaction_type = "Outbound"
    /\ h.transaction_type = "Inbound"
    /\ h.transaction_id < m.related_transaction_id
    /\ h.reference_number = m.reference_number

\* C26: the lines of the mirror that a successful createTransaction of a
\* transfer writes correspond one to one to the items of the request: the
\* line of an item has the item's name, its quantity (0 when the quantity
\* supplied is not a number) and its lot number, as the primary's line of
\* that item has, and its inventory status is transferToInventoryStatus
\* when the request supplies one and the inventory status of the primary's
\* line otherwise.
C26_MirrorLinesFollowItems ==
  [][\A data \in TransferRequests, a \in {b \in CreateAnswers : b.failAt = "none"} :
       (/\ last'.op = "createTransaction"
        /\ createTransaction(data, a)
        /\ last'.ok)
       => \A m \in headers' \ headers :
            m.related_transaction_id = last'.id
            => LET lines == DetailsOf(details', m.transaction_id)
                   primary == DetailsOf(details', last'.id)
                   n == Len(data.items)
               IN  /\ Cardinality(lines) = n
                   /\ \E f \in [1..n -> lines] :
                        /\ \A i, j \in 1..n : f[i] = f[j] => i = j
                        /\ \A i \in 1..n :
                             /\ f[i].item_name = data.items[i].item_name
                             /\ f[i].quantity =
                                  (IF data.items[i].quantity.isNumber
                                   THEN data.items[i].quantity.value ELSE 0)
                             /\ f[i].lot_number =
                                  (IF data.items[i].lot_number = ""
                                   THEN "null" ELSE data.items[i].lot_number)
                             /\ \E p \in primary :
                                  /\ p.item_name = f[i].item_name
                                  /\ p.quantity = f[i].quantity
                                  /\ p.lot_number = f[i].lot_number
                                  /\ f[i].inventory_status =
                                       (IF data.transferToInventoryStatus # ""
                                        THEN data.transferToInventoryStatus
                                        ELSE p.inventory_status)]_vars

\* A transfer of two items, one with a lot number and a quantity and one
\* with neither, has been created with a transfer-specific inventory status:
\* the mirror has the two lines, on Hold, while the primary's are in Stock.
C26_Witness ==
  /\ last.op = "createTransaction" /\ last.ok
  /\ \E m \in headers :
       /\ m.related_transaction_id = last.id
       /\ \E d, e \in DetailsOf(details, m.transaction_id) :
            /\ d.item_name = "A" /\ d.quantity = 3 /\ d.lot_number = "L1"
            /\ e.item_name = "B" /\ e.quantity = 0 /\ e.lot_number = "null"
            /\ d.inventory_status = "Hold" /\ e.inventory_status = "Hold"
  /\ \A p \in DetailsOf(details, last.id) : p.inventory_status = "Stock"

\* C27: the reference numbers ADJ-COUNT-<milliseconds> that generateAdjustment
\* gives to the headers it writes are pairwise distinct, also when two
\* adjustments are generated within the same millisecond, by one session or
\* by two.
C27_CountReferencesDistinct ==
  \A g, h \in {k \in headers : /\ k.transaction_type = "Adjustment"
                               /\ k.reference_type = "Inventory Count"} :
    g.transaction_id # h.transaction_id
    => g.reference_number # h.reference_number

\* C28: the variances do not outlive the session they were calculated in:
\* once generateAdjustment has committed its header and lines, the hook
\* holds no variances any more.
C28_VariancesEndWithAdjustment ==
  (last.op = "generateAdjustment" /\ last.ok) => count.variances = << >>

\* C29: the header that a generateAdjustment accepted by the store has
\* committed comes with at least one detail line; variances that are all
\* zero commit no header.
C29_AdjustmentHasLines ==
  \A h \in headers :
    (/\ last.op = "generateAdjustment" /\ last.ok
     /\ h.transaction_id = last.id)
    => DetailsOf(details, h.transaction_id) # {}

(***************************************************************************)
(* fetchInitialInventory, request by request: the effect runs again each   *)
(* time the warehouse or the date selected changes, and each run awaits    *)
(* the store at the query of the snapshot view.  A run is not cancelled    *)
(* when the selection changes, and the answers come in any order.          *)
(***************************************************************************)
\* The effect runs on a selection: it returns at once when the warehouse or
\* the date is missing and puts the query of the snapshot view otherwise.
fetchInitialInventory_call(selectedWarehouse, selectedDate) ==
  IF selectedWarehouse = "" \/ selectedDate = ""
  THEN inflight
  ELSE [inflight EXCEPT
          !.fetches = @ \cup {[id |-> Cardinality(@) + 1,
                               selectedWarehouse |-> selectedWarehouse,
                               selectedDate |-> selectedDate,
                               awaits |-> "select snapshot",
                               ok |-> FALSE]}]

\* setSelectedWarehouse with another warehouse, and the effect it triggers.
setSelectedWarehouse(warehouse) ==
  /\ warehouse # count.selectedWarehouse
  /\ count' = [count EXCEPT !.selectedWarehouse = warehouse]
  /\ inflight' = fetchInitialInventory_call(warehouse, count.selectedDate)
  /\ last' = [NoCall EXCEPT !.op = "setSelectedWarehouse"]
  /\ run' = NoRun
  /\ UNCHANGED <<headers, details, transactions, now, views, inventory>>

\* setSelectedDate with another date, and the effect it triggers.
setSelectedDate(date) ==
  /\ date # count.selectedDate
  /\ count' = [count EXCEPT !.selectedDate = date]
  /\ inflight' = fetchInitialInventory_call(count.selectedWarehouse, date)
  /\ last' = [NoCall EXCEPT !.op = "setSelectedDate"]
  /\ run' = NoRun
  /\ UNCHANGED <<headers, details, transactions, now, views, inventory>>

\* The query of the run f is answered: with the rows, the run sets countData
\* and calculatedInventory of the hook, whatever is selected by now.
fetchInitialInventory_snapshot(f, answer, snapshot) ==
  LET latestSnapshots == LatestSnapshots(snapshot)
  IN  /\ f.awaits = "select snapshot"
      /\ count' = IF answer = "ok"
                  THEN [count EXCEPT
                          !.countData = InitialCountData(latestSnapshots),
                          !.calculatedInventory = latestSnapshots]
                  ELSE count
      /\ inflight' = [inflight EXCEPT
                        !.fetches = (@ \ {f}) \cup
                                      {[f EXCEPT !.awaits = "returned",
                                                 !.ok = (answer = "ok")]}]
      /\ last' = [NoCall EXCEPT
                    !.op = "fetchInitialInventory",
                    !.ok = (answer = "ok"),
                    !.toast = IF answer = "ok" THEN "" ELSE "failed",
                    !.calls = <<"select snapshot">>]
      /\ run' = NoRun
      /\ UNCHANGED <<headers, details, transactions, now, views, inventory>>

(***************************************************************************)
(* SpecFetch: the selection of a count changes while snapshots are being   *)
(* fetched.  The view holds rows of item A for two warehouses and two      *)
(* dates, with on-hand totals that tell the rows apart.                    *)
(***************************************************************************)
FetchSnapshots ==
  { {OnHandRow("A", "W1", "2025-01-05", 50), OnHandRow("A", "W2", "2025-01-05", 7)} \cup later :
      later \in SUBSET {OnHandRow("A", "W1", "2025-01-06", 45),
                        OnHandRow("B", "W2", "2025-01-06", 3)} }

InitFetch ==
  /\ InitLedger
  /\ \E snapshot \in FetchSnapshots : views = [NoViews EXCEPT !.snapshot = snapshot]

SetSelectedWarehouse ==
  \E warehouse \in {"W1", "W2"} :
    /\ Cardinality(inflight.fetches) < MaxFetches
    /\ setSelectedWarehouse(warehouse)

SetSelectedDate ==
  \E date \in {"2025-01-05", "2025-01-06"} :
    /\ Cardinality(inflight.fetches) < MaxFetches
    /\ setSelectedDate(date)

AnswerSnapshot ==
  \E f \in inflight.fetches, answer \in {"ok", "error"} :
    \E snapshot \in OrderedByDate(SelectedSnapshot(views.snapshot,
                                                   f.selectedWarehouse,
                                                   f.selectedDate)) :
      fetchInitialInventory_snapshot(f, answer, snapshot)

NextFetch ==
  \/ SetSelectedWarehouse
  \/ SetSelectedDate
  \/ AnswerSnapshot

SpecFetch == InitFetch /\ [][NextFetch]_vars

\* The lists of latest snapshots that the store may answer for the selection
\* of the hook.
SnapshotsOfSelection ==
  { LatestSnapshots(s) :
      s \in OrderedByDate(SelectedSnapshot(views.snapshot,
                                           count.selectedWarehouse,
                                           count.selectedDate)) }

\* C30: when the selection has changed while an earlier fetch of the snapshot
\* was outstanding, then once every fetch has been answered by the store
\* with its rows, calculatedInventory and countData of the hook are those of
\* the warehouse and date now selected, in whatever order the answers came.
C30_LatestSelectionWins ==
  (/\ inflight.fetches # {}
   /\ \A f \in inflight.fetches : f.awaits = "returned" /\ f.ok)
  => /\ count.calculatedInventory \in SnapshotsOfSelection
     /\ count.countData = InitialCountData(count.calculatedInventory)

====
